---- MODULE Spec2Model ----
(***************************************************************************)
(* DNA-commit: the review gate, the generation log and the item store.     *)
(*                                                                         *)
(* Python dicts are modelled as TLA+ functions whose DOMAIN is the set of  *)
(* keys that are present; dict.get(k, d) is Get(d_, k, d).  Scores are     *)
(* kept in hundredths (0.8 is 80) so that the comparisons of the source    *)
(* are integer comparisons.  Every JSON document exists twice: the copy a  *)
(* long-lived object holds in memory and the file it rewrites on save.     *)
(***************************************************************************)
EXTENDS Integers, Sequences, FiniteSets, TLC

VARIABLES
    gate_review,        \* the review handed to should_auto_approve
    gate_result,        \* what should_auto_approve returned for it
    gate_base,          \* the review of the previous call (before one key was changed)
    gate_base_result,   \* what should_auto_approve returned for gate_base
    gate_pc,            \* "input" | "called" | "changed" | "recalled"
    collected_data,     \* self.collector.collected_data["items"] of the orchestrator
    collected_info_json,\* the items of data/collected_info.json
    generation_history, \* self.generator.generation_history["generations"]
    generations_json,   \* the generations of logs/generations.json
    now,                \* the wall clock, in days
    last_run,           \* what the last stage run did (observation only)
    json_orig,          \* a JSON text, as a sequence of characters
    json_in,            \* the text handed to _repair_json / json.loads
    json_out,           \* what the call returned
    json_pc,            \* "idle" | "input" | "cut" | "repaired" | "loaded"
    val_generation,     \* the model result handed to _validate_generation
    val_out,            \* what _validate_generation returned
    val_pc,             \* "idle" | "input" | "validated"
    gen_input,          \* the item of one generate call, its target files and
                        \* the answers the model gives to the calls
    gen_out,            \* what generate returned and the attempts it made
    gen_pc,             \* "idle" | "input" | "done"
    commit_history,     \* self.commit_history of each GitCommitter
    commits_json,       \* the content of logs/commits.json
    git_repo,           \* the checked-out branch, the merge state and the applied
                        \* but uncommitted changes of each repository
    commit_gens,        \* the status of the generations handed to commit
    commit_call,        \* the last call of commit: arguments, git commands, result
    commit_calls,       \* the number of calls of commit so far
    run_history_json,   \* the content of logs/run_history.json
    scheduler_history,  \* self.run_history of the running DNAScheduler
    hour,               \* the wall clock, in hours
    cycle               \* the last call of run_full_cycle: arguments, stages run,
                        \* result (observation only)

gateVars == <<gate_review, gate_result, gate_base, gate_base_result, gate_pc>>

itemVars == <<collected_data, collected_info_json>>

genVars == <<generation_history, generations_json>>

pipeVars == <<collected_data, collected_info_json, generation_history,
              generations_json, now, last_run>>

jsonVars == <<json_orig, json_in, json_out, json_pc>>

valVars == <<val_generation, val_out, val_pc>>

callVars == <<gen_input, gen_out, gen_pc>>

\* the variables of the specifications of single calls
commitVars == <<commit_history, commits_json, git_repo, commit_gens,
                commit_call, commit_calls>>

cycleVars == <<run_history_json, scheduler_history, hour, cycle>>

unitVars == <<jsonVars, valVars, callVars, commitVars, cycleVars>>

vars == <<gate_review, gate_result, gate_base, gate_base_result, gate_pc,
          collected_data, collected_info_json, generation_history,
          generations_json, now, last_run, unitVars>>

JsonIdle ==
    /\ json_orig = << >>
    /\ json_in = << >>
    /\ json_out = << >>
    /\ json_pc = "idle"

ValIdle ==
    /\ val_generation = << >>
    /\ val_out = << >>
    /\ val_pc = "idle"

CallIdle ==
    /\ gen_input = << >>
    /\ gen_out = << >>
    /\ gen_pc = "idle"

CommitIdle ==
    /\ commit_history = << >>
    /\ commits_json = << >>
    /\ git_repo = << >>
    /\ commit_gens = << >>
    /\ commit_call = << >>
    /\ commit_calls = 0

CycleIdle ==
    /\ run_history_json = << >>
    /\ scheduler_history = << >>
    /\ hour = 0
    /\ cycle = << >>

UnitIdle == JsonIdle /\ ValIdle /\ CallIdle /\ CommitIdle /\ CycleIdle

(***************************************************************************)
(* dict helpers                                                            *)
(***************************************************************************)
\* Python's None, as the default of dict.get(k)
None == "None"

\* dict.get(k, d)
Get(d_, k, dflt) == IF k \in DOMAIN d_ THEN d_[k] ELSE dflt

\* the dict d_ restricted to the keys K
Restrict(d_, K) == [k \in (K \cap DOMAIN d_) |-> d_[k]]

\* d_[k] = v (the key is added when absent)
Put(d_, k, v) == [j \in (DOMAIN d_) \cup {k} |-> IF j = k THEN v ELSE d_[j]]

(***************************************************************************)
(* bounds and program constants                                            *)
(***************************************************************************)
\* the longest issue list of a review
MaxIssues == 2

\* reviewer.py: security_score < 0.8 blocks
SECURITY_THRESHOLD == 80

\* reviewer.py: overall_score < 0.7 blocks
OVERALL_THRESHOLD == 70

Severities == {"critical", "major", "minor", "info"}

Recommendations == {"approve", "request_changes", "reject"}

\* an issue is a dict; only its severity is read
Issue(sev) == [severity |-> sev]

IssueLists == UNION {[1..n -> {Issue(s) : s \in Severities}] : n \in 0..MaxIssues}

ReviewKeys == {"approved", "recommendation", "security_score", "overall_score", "issues"}

\* the reviews with every key present
FullReviews ==
    [approved : BOOLEAN,
     recommendation : Recommendations,
     security_score : {79, 80, 90},
     overall_score : {69, 70, 75},
     issues : IssueLists]

\* the values a key of a review may take
ReviewValues(k) == {full[k] : full \in FullReviews}

(***************************************************************************)
(* CodeReviewer.should_auto_approve                                        *)
(***************************************************************************)
HasCriticalIssue(review) ==
    \E i \in 1..Len(Get(review, "issues", <<>>)) :
        Get(Get(review, "issues", <<>>)[i], "severity", None) = "critical"

\* should_auto_approve without its loop over the issues
should_auto_approve_no_issue_loop(review) ==
    IF ~Get(review, "approved", FALSE) THEN FALSE
    ELSE IF Get(review, "recommendation", None) # "approve" THEN FALSE
    ELSE IF Get(review, "security_score", 0) < SECURITY_THRESHOLD THEN FALSE
    ELSE IF Get(review, "overall_score", 0) < OVERALL_THRESHOLD THEN FALSE
    ELSE TRUE

\* should_auto_approve with review.get("security_score", 1.0)
should_auto_approve_default_one(review) ==
    IF ~Get(review, "approved", FALSE) THEN FALSE
    ELSE IF Get(review, "recommendation", None) # "approve" THEN FALSE
    ELSE IF Get(review, "security_score", 100) < SECURITY_THRESHOLD THEN FALSE
    ELSE IF Get(review, "overall_score", 0) < OVERALL_THRESHOLD THEN FALSE
    ELSE IF HasCriticalIssue(review) THEN FALSE
    ELSE TRUE

should_auto_approve(review) ==
    IF ~Get(review, "approved", FALSE) THEN FALSE
    ELSE IF Get(review, "recommendation", None) # "approve" THEN FALSE
    ELSE IF Get(review, "security_score", 0) < SECURITY_THRESHOLD THEN FALSE
    ELSE IF Get(review, "overall_score", 0) < OVERALL_THRESHOLD THEN FALSE
    ELSE IF HasCriticalIssue(review) THEN FALSE
    ELSE TRUE

(***************************************************************************)
(* The gate applied to one review, then to the same review with one key    *)
(* changed or removed.                                                     *)
(***************************************************************************)
GateInit ==
    /\ \E full \in FullReviews, K \in SUBSET ReviewKeys :
           gate_review = Restrict(full, K)
    /\ gate_result = FALSE
    /\ gate_base = << >>
    /\ gate_base_result = FALSE
    /\ gate_pc = "input"
    /\ collected_data = << >>
    /\ collected_info_json = << >>
    /\ generation_history = << >>
    /\ generations_json = << >>
    /\ now = 0
    /\ last_run = [op |-> "none"]
    /\ UnitIdle

GateCall ==
    /\ gate_pc = "input"
    /\ gate_result' = should_auto_approve(gate_review)
    /\ gate_pc' = "called"
    /\ UNCHANGED <<gate_review, gate_base, gate_base_result>>
    /\ UNCHANGED <<pipeVars, unitVars>>

\* one key of a review that passed is given another value, or removed
GateChangeKey ==
    /\ gate_pc = "called"
    /\ gate_result = TRUE
    /\ \E k \in DOMAIN gate_review :
          \/ \E v \in ReviewValues(k) :
                /\ v # gate_review[k]
                /\ gate_review' = Put(gate_review, k, v)
          \/ gate_review' = Restrict(gate_review, (DOMAIN gate_review) \ {k})
    /\ gate_base' = gate_review
    /\ gate_base_result' = gate_result
    /\ gate_pc' = "changed"
    /\ UNCHANGED gate_result
    /\ UNCHANGED <<pipeVars, unitVars>>

GateRecall ==
    /\ gate_pc = "changed"
    /\ gate_result' = should_auto_approve(gate_review)
    /\ gate_pc' = "recalled"
    /\ UNCHANGED <<gate_review, gate_base, gate_base_result>>
    /\ UNCHANGED <<pipeVars, unitVars>>

GateNext == GateCall \/ GateChangeKey \/ GateRecall

SpecGate == GateInit /\ [][GateNext]_vars

(***************************************************************************)
(* Claims about the gate                                                   *)
(***************************************************************************)
\* the five conditions, as the specification words them
ApprovedIsTrue(r) == "approved" \in DOMAIN r /\ r["approved"] = TRUE

RecommendsApprove(r) == "recommendation" \in DOMAIN r /\ r["recommendation"] = "approve"

SecurityAtLeast80(r) == "security_score" \in DOMAIN r /\ r["security_score"] >= 80

OverallAtLeast70(r) == "overall_score" \in DOMAIN r /\ r["overall_score"] >= 70

NoCriticalIssue(r) ==
    "issues" \in DOMAIN r =>
        \A i \in 1..Len(r["issues"]) : r["issues"][i] # Issue("critical")

FiveConditions(r) ==
    /\ ApprovedIsTrue(r)
    /\ RecommendsApprove(r)
    /\ SecurityAtLeast80(r)
    /\ OverallAtLeast70(r)
    /\ NoCriticalIssue(r)

GateCalled == gate_pc \in {"called", "recalled"}

\* C1: should_auto_approve(review) is true iff approved is true, recommendation
\* is "approve", security_score >= 0.8, overall_score >= 0.7 and no issue is
\* critical; and when a review satisfying all five has one condition changed
\* to failing, the result for the changed review is false.
C1_GateIffFiveConditions ==
    /\ GateCalled => (gate_result = FiveConditions(gate_review))
    /\ (/\ gate_pc = "recalled"
        /\ FiveConditions(gate_base)
        /\ ~FiveConditions(gate_review)) => gate_result = FALSE

\* the specification's example review (0.9, 0.75, approved, approve) passed,
\* and with security_score dropped to 0.79 it does not
C1_Witness ==
    /\ gate_pc = "recalled"
    /\ gate_base = [approved |-> TRUE, recommendation |-> "approve",
                    security_score |-> 90, overall_score |-> 75, issues |-> << >>]
    /\ gate_base_result = TRUE
    /\ gate_review = [approved |-> TRUE, recommendation |-> "approve",
                      security_score |-> 79, overall_score |-> 75, issues |-> << >>]
    /\ gate_result = FALSE

\* C2: should_auto_approve is false for every review in which approved,
\* recommendation, security_score or overall_score is missing, the empty
\* review included.
C2_MissingFieldBlocks ==
    (/\ GateCalled
     /\ \E k \in {"approved", "recommendation", "security_score", "overall_score"} :
            k \notin DOMAIN gate_review)
        => gate_result = FALSE

\* a review that passed, called again with its security_score removed
C2_Witness ==
    /\ gate_pc = "recalled"
    /\ gate_base_result = TRUE
    /\ DOMAIN gate_review = ReviewKeys \ {"security_score"}
    /\ gate_result = FALSE

(***************************************************************************)
(* Configuration (config.py) and the bounds of the item store              *)
(***************************************************************************)
\* Config.TARGET_REPOS, in the order run_full_cycle iterates them
TARGET_REPOS == <<"raspi-voice8", "DNA-commit">>

Repos == {TARGET_REPOS[i] : i \in 1..Len(TARGET_REPOS)}

\* Config.STALENESS_DAYS
STALENESS_DAYS == 30

\* Config.MIN_USEFULNESS_SCORE (0.3)
MIN_USEFULNESS_SCORE == 30

\* run_generation: adoptable_items[:3]
GENERATION_BATCH == 3

\* run_commit: approved[:2]
COMMIT_BATCH == 2

\* the URLs the search providers may return
URLs == {"u1", "u2"}

\* the searches of one collect_all (Config.SEARCH_TOPICS, then GITHUB_TOPICS)
NumTopics == 2

\* the results of one search
MaxResults == 1

\* the most items the store holds
MaxItems == 2

\* the most generations the log holds
MaxGens == 2

\* the last day of the clock
MaxNow == 40

SeqsUpTo(S, n) == UNION {[1..k -> S] : k \in 0..n}

Min(a, b) == IF a < b THEN a ELSE b

\* bool(d) of a dict
Truthy(d_) == DOMAIN d_ # {}

\* the numbers of a finite set, in ascending order
RECURSIVE Ascending(_)
Ascending(S) ==
    IF S = {} THEN << >>
    ELSE LET m == CHOOSE x \in S : \A y \in S : x <= y
         IN <<m>> \o Ascending(S \ {m})

(***************************************************************************)
(* InformationCollector                                                    *)
(***************************************************************************)
\* hashlib.md5(url).hexdigest()[:12]: one id per URL
generate_id(url) ==
    CASE url = "u1" -> "id1"
      [] url = "u2" -> "id2"
      [] OTHER -> "id0"

is_duplicate(items, url) ==
    \E i \in 1..Len(items) : Get(items[i], "url", None) = url

\* the result dict search_web / search_github builds for one hit
NewItem(url) ==
    [id |-> generate_id(url), url |-> url, collected_at |-> now,
     status |-> "pending_evaluation"]

\* search_web / search_github: the hits that are not in the store
RECURSIVE search(_, _)
search(items, hits) ==
    IF hits = << >> THEN << >>
    ELSE (IF is_duplicate(items, Head(hits)) THEN << >>
          ELSE <<NewItem(Head(hits))>>) \o search(items, Tail(hits))

\* collect_all: new_items, over all topic searches
RECURSIVE collect_new_items(_, _)
collect_new_items(items, results) ==
    IF results = << >> THEN << >>
    ELSE search(items, Head(results)) \o collect_new_items(items, Tail(results))

get_pending_items(items) ==
    SelectSeq(items, LAMBDA item : Get(item, "status", None) = "pending_evaluation")

\* where the entries of get_pending_items stand in the store
PendingPositions(items) ==
    Ascending({i \in 1..Len(items) :
                  Get(items[i], "status", None) = "pending_evaluation"})

\* the first entry with that id, 0 when there is none
FirstWithId(items, item_id) ==
    IF \E i \in 1..Len(items) : Get(items[i], "id", None) = item_id
    THEN CHOOSE i \in 1..Len(items) :
            /\ Get(items[i], "id", None) = item_id
            /\ \A j \in 1..(i - 1) : Get(items[j], "id", None) # item_id
    ELSE 0

update_item_status(items, item_id, status, evaluation) ==
    LET i == FirstWithId(items, item_id) IN
    IF i = 0 THEN items
    ELSE [items EXCEPT ![i] =
            IF Truthy(evaluation)
            THEN Put(Put(@, "status", status), "evaluation", evaluation)
            ELSE Put(@, "status", status)]

(***************************************************************************)
(* InformationEvaluator                                                    *)
(***************************************************************************)
\* what one call of evaluate meets: a failed call or parse, or a parsed answer
EvalOutcomes == {"fail", "adopt", "reject"}

ModelEvaluation(outcome) ==
    IF outcome = "adopt"
    THEN [quality_score |-> 80, relevance_score |-> 80, novelty_score |-> 80,
          practicality_score |-> 80, overall_score |-> 80,
          recommendation |-> "adopt"]
    ELSE [quality_score |-> 20, relevance_score |-> 20, novelty_score |-> 20,
          practicality_score |-> 20, overall_score |-> 20,
          recommendation |-> "reject"]

create_fallback_evaluation(item) ==
    [quality_score |-> 50, relevance_score |-> 50, novelty_score |-> 50,
     practicality_score |-> 50, overall_score |-> 50,
     recommendation |-> "consider", error |-> "error",
     item_id |-> Get(item, "id", None)]

evaluate(item, outcome) ==
    IF outcome = "fail" THEN create_fallback_evaluation(item)
    ELSE Put(ModelEvaluation(outcome), "item_id", Get(item, "id", None))

(***************************************************************************)
(* DNACommitOrchestrator.run_collection / run_evaluation                   *)
(***************************************************************************)
\* the lists new_items that one collect_all can build, over every answer
\* of the search providers
CollectableItems(items) ==
    {collect_new_items(items, results) :
        results \in [1..NumTopics -> SeqsUpTo(URLs, MaxResults)]}

CollectAll ==
    /\ \E new_items \in CollectableItems(collected_data) :
          /\ Len(collected_data) + Len(new_items) <= MaxItems
          /\ collected_data' = collected_data \o new_items
          /\ collected_info_json' = collected_data'
          /\ last_run' = [op |-> "collect", new_items |-> new_items]
    /\ UNCHANGED <<generation_history, generations_json, now>>
    /\ UNCHANGED <<gateVars, unitVars>>

\* evaluate_pending with the loop ending at the first failed evaluation
RECURSIVE evaluate_pending_halts_on_failure(_, _, _, _)
evaluate_pending_halts_on_failure(items, pending, outcomes, k) ==
    IF k > Len(pending) \/ outcomes[k] = "fail" THEN items
    ELSE evaluate_pending_halts_on_failure(
            update_item_status(items, Get(pending[k], "id", None), "evaluated",
                               evaluate(pending[k], outcomes[k])),
            pending, outcomes, k + 1)

\* the loop of run_evaluation over pending_items
RECURSIVE evaluate_pending(_, _, _, _)
evaluate_pending(items, pending, outcomes, k) ==
    IF k > Len(pending) THEN items
    ELSE evaluate_pending(
            update_item_status(items, Get(pending[k], "id", None), "evaluated",
                               evaluate(pending[k], outcomes[k])),
            pending, outcomes, k + 1)

RunEvaluation ==
    LET pending == get_pending_items(collected_data) IN
    /\ \E outcomes \in [1..Len(pending) -> EvalOutcomes] :
          /\ collected_data' = evaluate_pending(collected_data, pending, outcomes, 1)
          /\ last_run' =
                [op |-> "evaluate",
                 positions |-> PendingPositions(collected_data),
                 outcomes |-> outcomes,
                 evaluations |-> [k \in 1..Len(pending) |->
                                    evaluate(pending[k], outcomes[k])]]
    /\ collected_info_json' =
          IF pending = << >> THEN collected_info_json ELSE collected_data'
    /\ UNCHANGED <<generation_history, generations_json, now>>
    /\ UNCHANGED <<gateVars, unitVars>>

(***************************************************************************)
(* DNACommitOrchestrator.run_generation                                    *)
(***************************************************************************)
\* the entries run_generation selects from the store it has just loaded
AdoptablePositions(items, target_repo) ==
    Ascending({i \in 1..Len(items) :
        /\ Get(Get(items[i], "evaluation", << >>), "recommendation", None) = "adopt"
        /\ \A j \in 1..Len(Get(items[i], "generated_for", << >>)) :
              Get(items[i], "generated_for", << >>)[j] # target_repo})

\* item["evaluation"] = evaluation; item["target_repo"] = target_repo
MarkAdoptable(items, target_repo) ==
    LET sel == AdoptablePositions(items, target_repo) IN
    [i \in 1..Len(items) |->
        IF \E k \in 1..Len(sel) : sel[k] = i
        THEN Put(Put(items[i], "evaluation", Get(items[i], "evaluation", << >>)),
                 "target_repo", target_repo)
        ELSE items[i]]

\* CodeGenerator.generate, when an attempt validates: the record it appends
NewGeneration(item, target_repo) ==
    [source_item_id |-> Get(item, "id", None), target_repo |-> target_repo,
     status |-> "pending_review"]

\* the loop over all adoptable items, without the cap of 3
RECURSIVE generate_items_uncapped(_, _, _, _)
generate_items_uncapped(items, sel, target_repo, k) ==
    IF k > Len(sel) THEN items
    ELSE LET item == Put(items[sel[k]], "target_repo_config", target_repo)
             generated_for == Get(item, "generated_for", << >>) \o <<target_repo>>
             marked == [items EXCEPT ![sel[k]] = item]
         IN generate_items_uncapped(
                update_item_status(marked, Get(item, "id", None), "code_generated",
                                   [generated_for |-> generated_for]),
                sel, target_repo, k + 1)

\* the loop over adoptable_items[:3]: the store of the local collector
RECURSIVE generate_items(_, _, _, _)
generate_items(items, sel, target_repo, k) ==
    IF k > Min(GENERATION_BATCH, Len(sel)) THEN items
    ELSE LET item == Put(items[sel[k]], "target_repo_config", target_repo)
             generated_for == Get(item, "generated_for", << >>) \o <<target_repo>>
             marked == [items EXCEPT ![sel[k]] = item]
         IN generate_items(
                update_item_status(marked, Get(item, "id", None), "code_generated",
                                   [generated_for |-> generated_for]),
                sel, target_repo, k + 1)

\* the loop over adoptable_items[:3]: the generation history
RECURSIVE generate_history(_, _, _, _, _, _)
generate_history(gens, items, sel, target_repo, outcomes, k) ==
    IF k > Min(GENERATION_BATCH, Len(sel)) THEN gens
    ELSE generate_history(
            IF outcomes[k] = "ok"
            THEN Append(gens, NewGeneration(items[sel[k]], target_repo))
            ELSE gens,
            items, sel, target_repo, outcomes, k + 1)

RunGeneration(target_repo) ==
    LET loaded == collected_info_json
        sel == AdoptablePositions(loaded, target_repo)
        n == Min(GENERATION_BATCH, Len(sel))
        marked == MarkAdoptable(loaded, target_repo)
    IN
    /\ \E outcomes \in [1..n -> {"ok", "failed"}] :
          /\ generation_history' =
                generate_history(generation_history, marked, sel, target_repo, outcomes, 1)
          /\ Len(generation_history') <= MaxGens
          /\ generations_json' =
                IF generation_history' = generation_history THEN generations_json
                ELSE generation_history'
          /\ last_run' = [op |-> "none"]
    /\ collected_info_json' =
          IF n = 0 THEN collected_info_json
          ELSE generate_items(marked, sel, target_repo, 1)
    /\ UNCHANGED <<collected_data, now>>
    /\ UNCHANGED <<gateVars, unitVars>>

(***************************************************************************)
(* KnowledgeCleaner                                                        *)
(***************************************************************************)
\* identify_stale_items with the cutoff day itself counted as stale
identify_stale_items_inclusive(items) ==
    SelectSeq(items, LAMBDA item :
        /\ "collected_at" \in DOMAIN item
        /\ item["collected_at"] <= now - STALENESS_DAYS)

identify_stale_items(items) ==
    SelectSeq(items, LAMBDA item :
        /\ "collected_at" \in DOMAIN item
        /\ item["collected_at"] < now - STALENESS_DAYS)

identify_low_quality_items(items) ==
    SelectSeq(items, LAMBDA item :
        /\ Truthy(Get(item, "evaluation", << >>))
        /\ Get(Get(item, "evaluation", << >>), "overall_score", 100)
              < MIN_USEFULNESS_SCORE)

identify_rejected_items(items) ==
    SelectSeq(items, LAMBDA item :
        Get(Get(item, "evaluation", << >>), "recommendation", None) = "reject")

cleanup_items(items, items_to_remove) ==
    LET ids_to_remove ==
            {Get(items_to_remove[i], "id", None) : i \in 1..Len(items_to_remove)}
    IN SelectSeq(items, LAMBDA item : Get(item, "id", None) \notin ids_to_remove)

\* the item file after the three removal batches
run_full_cleanup(items) ==
    LET a == IF identify_stale_items(items) # << >>
             THEN cleanup_items(items, identify_stale_items(items)) ELSE items
        b == IF identify_low_quality_items(a) # << >>
             THEN cleanup_items(a, identify_low_quality_items(a)) ELSE a
    IN IF identify_rejected_items(b) # << >>
       THEN cleanup_items(b, identify_rejected_items(b)) ELSE b

RunCleanup ==
    /\ collected_info_json' = run_full_cleanup(collected_info_json)
    /\ last_run' = [op |-> "none"]
    /\ UNCHANGED <<collected_data, generation_history, generations_json, now>>
    /\ UNCHANGED <<gateVars, unitVars>>

\* time passes, to the last day of the clock
Tick ==
    /\ now < MaxNow
    /\ now' = MaxNow
    /\ UNCHANGED <<collected_data, collected_info_json, generation_history,
                   generations_json, last_run>>
    /\ UNCHANGED <<gateVars, unitVars>>

\* the process ends and a new one loads the files (every command-line run)
Restart ==
    /\ collected_data' = collected_info_json
    /\ generation_history' = generations_json
    /\ last_run' = [op |-> "none"]
    /\ UNCHANGED <<collected_info_json, generations_json, now>>
    /\ UNCHANGED <<gateVars, unitVars>>

(***************************************************************************)
(* CodeReviewer.review                                                     *)
(***************************************************************************)
\* what one call of review meets: a failed call or parse, or a parsed answer
ReviewOutcomes ==
    {"fail", "pass", "critical", "low_security", "changes", "reject", "empty"}

\* the dict json.loads returns for the model's answer
ModelReview(outcome) ==
    CASE outcome = "pass" ->
            [approved |-> TRUE, recommendation |-> "approve", security_score |-> 90,
             overall_score |-> 75, issues |-> <<Issue("minor")>>]
      [] outcome = "critical" ->
            [approved |-> TRUE, recommendation |-> "approve", security_score |-> 90,
             overall_score |-> 75, issues |-> <<Issue("critical")>>]
      [] outcome = "low_security" ->
            [approved |-> TRUE, recommendation |-> "approve", security_score |-> 79,
             overall_score |-> 75, issues |-> << >>]
      [] outcome = "changes" ->
            [approved |-> FALSE, recommendation |-> "request_changes",
             security_score |-> 90, overall_score |-> 69, issues |-> <<Issue("major")>>]
      [] outcome = "reject" ->
            [approved |-> FALSE, recommendation |-> "reject", security_score |-> 79,
             overall_score |-> 0, issues |-> <<Issue("major"), Issue("critical")>>]
      [] OTHER -> << >>

\* a fallback review that asks for changes instead of rejecting
create_fallback_review_request_changes ==
    [approved |-> FALSE, security_score |-> 0, quality_score |-> 0,
     compatibility_score |-> 0, overall_score |-> 0,
     issues |-> <<Issue("critical")>>, recommendation |-> "request_changes",
     error |-> "error", reviewed_at |-> "ts"]

create_fallback_review ==
    [approved |-> FALSE, security_score |-> 0, quality_score |-> 0,
     compatibility_score |-> 0, overall_score |-> 0,
     issues |-> <<Issue("critical")>>, recommendation |-> "reject",
     error |-> "error", reviewed_at |-> "ts"]

review(generation, outcome) ==
    IF outcome = "fail" THEN create_fallback_review
    ELSE Put(Put(ModelReview(outcome), "reviewed_at", "ts"),
             "generation_source", Get(generation, "source_item_id", None))

(***************************************************************************)
(* DNACommitOrchestrator.run_review                                        *)
(***************************************************************************)
\* new_status with every review that is not auto-approvable rejected
new_status_else_rejected(rv) ==
    IF should_auto_approve(rv) THEN "approved" ELSE "rejected"

\* the status run_review gives a generation whose review is in
new_status(rv) ==
    IF should_auto_approve(rv) THEN "approved"
    ELSE IF Get(rv, "recommendation", None) = "reject" THEN "rejected"
    ELSE "pending_manual_review"

\* update_generation_status that sets the status and drops the review
update_generation_status_status_only(gens, index, status, review_result) ==
    IF 1 <= index /\ index <= Len(gens)
    THEN [gens EXCEPT ![index] = Put(@, "status", status)]
    ELSE gens

\* CodeGenerator.update_generation_status (index counted from 1)
update_generation_status(gens, index, status, review_result) ==
    IF 1 <= index /\ index <= Len(gens)
    THEN [gens EXCEPT ![index] =
            IF Truthy(review_result)
            THEN Put(Put(@, "status", status), "review", review_result)
            ELSE Put(@, "status", status)]
    ELSE gens

PendingReview(gens) ==
    {i \in 1..Len(gens) : Get(gens[i], "status", None) = "pending_review"}

\* the loop of run_review over all_generations
RECURSIVE review_all(_, _, _)
review_all(gens, outcomes, i) ==
    IF i > Len(gens) THEN gens
    ELSE IF Get(gens[i], "status", None) = "pending_review"
         THEN LET rv == review(gens[i], outcomes[i])
              IN review_all(update_generation_status(gens, i, new_status(rv), rv),
                            outcomes, i + 1)
         ELSE review_all(gens, outcomes, i + 1)

RunReview ==
    LET pending == PendingReview(generation_history) IN
    /\ \E outcomes \in [pending -> ReviewOutcomes] :
          /\ generation_history' = review_all(generation_history, outcomes, 1)
          /\ last_run' = [op |-> "review", reviewed |-> pending,
                          failed |-> {i \in pending : outcomes[i] = "fail"}]
    /\ generations_json' =
          IF pending = {} THEN generations_json ELSE generation_history'
    /\ UNCHANGED <<collected_data, collected_info_json, now>>
    /\ UNCHANGED <<gateVars, unitVars>>

(***************************************************************************)
(* DNACommitOrchestrator.run_commit                                        *)
(***************************************************************************)
\* ApprovedFor without the target_repo test
ApprovedFor_any_repo(gens, target_repo) ==
    Ascending({i \in 1..Len(gens) : Get(gens[i], "status", None) = "approved"})

\* the list "approved" of run_commit, as positions in the history
ApprovedFor(gens, target_repo) ==
    Ascending({i \in 1..Len(gens) :
        /\ Get(gens[i], "status", None) = "approved"
        /\ Get(gens[i], "target_repo", None) = target_repo})

\* commit_loop marking a generation whose commit did not succeed "failed"
RECURSIVE commit_loop_marks_failed(_, _, _, _, _)
commit_loop_marks_failed(gens, approved, outcomes, k, commits) ==
    IF k > Min(COMMIT_BATCH, Len(approved))
    THEN [generations |-> gens, commits |-> commits]
    ELSE LET generation == gens[approved[k]]
             rv == Get(generation, "review", << >>)
         IN IF should_auto_approve(rv)
            THEN commit_loop_marks_failed(
                    [gens EXCEPT ![approved[k]] =
                        Put(@, "status", IF outcomes[k] THEN "committed" ELSE "failed")],
                    approved, outcomes, k + 1,
                    Append(commits, [generation |-> generation,
                                     success |-> outcomes[k]]))
            ELSE commit_loop_marks_failed(gens, approved, outcomes, k + 1, commits)

\* the loop over approved[:2]; outcomes[k] is whether GitCommitter.commit
\* reported success.  commits lists the generations handed to commit, as
\* they were at the call.
RECURSIVE commit_loop(_, _, _, _, _)
commit_loop(gens, approved, outcomes, k, commits) ==
    IF k > Min(COMMIT_BATCH, Len(approved))
    THEN [generations |-> gens, commits |-> commits]
    ELSE LET generation == gens[approved[k]]
             rv == Get(generation, "review", << >>)
         IN IF should_auto_approve(rv)
            THEN commit_loop(
                    IF outcomes[k]
                    THEN [gens EXCEPT ![approved[k]] = Put(@, "status", "committed")]
                    ELSE gens,
                    approved, outcomes, k + 1,
                    Append(commits, [generation |-> generation,
                                     success |-> outcomes[k]]))
            ELSE commit_loop(gens, approved, outcomes, k + 1, commits)

RunCommit(target_repo) ==
    LET approved == ApprovedFor(generation_history, target_repo)
        n == Min(COMMIT_BATCH, Len(approved))
    IN
    /\ \E outcomes \in [1..n -> BOOLEAN] :
          LET done == commit_loop(generation_history, approved, outcomes, 1, << >>)
          IN /\ generation_history' = done.generations
             /\ last_run' = [op |-> "commit", target_repo |-> target_repo,
                             commits |-> done.commits]
    /\ UNCHANGED <<collected_data, collected_info_json, generations_json, now>>
    /\ UNCHANGED <<gateVars, unitVars>>

(***************************************************************************)
(* The item store over collection, evaluation, generation and cleanup      *)
(***************************************************************************)
GateIdle ==
    /\ gate_review = << >>
    /\ gate_result = FALSE
    /\ gate_base = << >>
    /\ gate_base_result = FALSE
    /\ gate_pc = "idle"

ItemsInit ==
    /\ GateIdle
    /\ UnitIdle
    /\ collected_data = << >>
    /\ collected_info_json = << >>
    /\ generation_history = << >>
    /\ generations_json = << >>
    /\ now = 0
    /\ last_run = [op |-> "none"]

ItemsNext ==
    \/ CollectAll
    \/ RunEvaluation
    \/ \E target_repo \in Repos : RunGeneration(target_repo)
    \/ RunCleanup
    \/ Tick
    \/ Restart

SpecItems == ItemsInit /\ [][ItemsNext]_vars

(***************************************************************************)
(* The generation log over generation, review and commit, starting from    *)
(* a store of evaluated items                                              *)
(***************************************************************************)
\* an item as collect_all and run_evaluation leave it
EvaluatedItem(url, outcome) ==
    Put(Put(NewItem(url), "status", "evaluated"),
        "evaluation", evaluate(NewItem(url), outcome))

PipeInit ==
    /\ GateIdle
    /\ UnitIdle
    /\ now = 0
    /\ \E o1 \in {"adopt"}, o2 \in {"adopt", "fail"} :
          collected_data = <<EvaluatedItem("u1", o1), EvaluatedItem("u2", o2)>>
    /\ collected_info_json = collected_data
    /\ generation_history = << >>
    /\ generations_json = << >>
    /\ last_run = [op |-> "none"]

PipeNext ==
    \/ CollectAll
    \/ \E target_repo \in Repos : RunGeneration(target_repo)
    \/ RunReview
    \/ \E target_repo \in Repos : RunCommit(target_repo)
    \/ Restart

SpecPipe == PipeInit /\ [][PipeNext]_vars

(***************************************************************************)
(* Claims about review and commit                                          *)
(***************************************************************************)
StatusOf(g) == Get(g, "status", None)

\* C3: GitCommitter.commit is invoked on a generation only if at that moment
\* its status is "approved", its target_repo is the repository being
\* committed and its attached review passes the gate; no generation with
\* another status is ever committed.
C3_CommitOnlyApprovedGated ==
    last_run.op = "commit" =>
        \A k \in 1..Len(last_run.commits) :
            LET g == last_run.commits[k].generation IN
            /\ StatusOf(g) = "approved"
            /\ Get(g, "target_repo", None) = last_run.target_repo
            /\ "review" \in DOMAIN g
            /\ FiveConditions(g["review"])

\* a Commit stage run committed one generation while the log also holds a
\* generation that needs a human or was rejected
C3_Witness ==
    /\ last_run.op = "commit"
    /\ Len(last_run.commits) = 1
    /\ \E i \in 1..Len(generation_history) :
          StatusOf(generation_history[i]) \in {"pending_manual_review", "rejected"}

\* C4: when the review of a generation fails, the review has approved=false,
\* recommendation="reject" and exactly one issue, of severity critical;
\* should_auto_approve is false for it and the Review stage sets the
\* generation's status to "rejected".
C4_FailedReviewRejects ==
    last_run.op = "review" =>
        \A i \in last_run.failed :
            LET g == generation_history[i] IN
            /\ "review" \in DOMAIN g
            /\ g["review"]["approved"] = FALSE
            /\ g["review"]["recommendation"] = "reject"
            /\ Len(g["review"]["issues"]) = 1
            /\ g["review"]["issues"][1]["severity"] = "critical"
            /\ should_auto_approve(g["review"]) = FALSE
            /\ StatusOf(g) = "rejected"

\* a Review stage run in which one review failed and another did not
C4_Witness ==
    /\ last_run.op = "review"
    /\ last_run.failed # {}
    /\ last_run.failed # last_run.reviewed

\* the status the specification assigns after review
SpecStatus(rv) ==
    IF FiveConditions(rv) THEN "approved"
    ELSE IF "recommendation" \in DOMAIN rv /\ rv["recommendation"] = "reject"
         THEN "rejected"
    ELSE "pending_manual_review"

\* C5: after the Review stage, each generation it processed is "approved" if
\* its review passes the gate, else "rejected" if the review recommends
\* reject, else "pending_manual_review"; the review is attached and no
\* generation is left in pending_review.
C5_StatusAfterReview ==
    last_run.op = "review" =>
        /\ \A i \in last_run.reviewed :
              /\ "review" \in DOMAIN generation_history[i]
              /\ StatusOf(generation_history[i])
                    = SpecStatus(generation_history[i]["review"])
        /\ \A i \in 1..Len(generation_history) :
              StatusOf(generation_history[i]) # "pending_review"

\* a Review stage run that approved one generation and left one to a human
C5_Witness ==
    /\ last_run.op = "review"
    /\ \E i, j \in last_run.reviewed :
          /\ StatusOf(generation_history[i]) = "approved"
          /\ StatusOf(generation_history[j]) = "pending_manual_review"

LegalStatusStep(a, b) ==
    \/ a = b
    \/ a = "pending_review" /\ b \in {"approved", "rejected", "pending_manual_review"}
    \/ a = "approved" /\ b = "committed"

\* C6: the status of a recorded generation only advances: over Review and
\* Commit stage runs the status held by the process changes only by
\* pending_review -> approved | rejected | pending_manual_review and
\* approved -> committed, and so does the status in the generation log file
\* over every step.
C6_GenerationStatusAdvances ==
    [][/\ \A i \in 1..Len(generations_json) :
             /\ i <= Len(generations_json')
             /\ LegalStatusStep(StatusOf(generations_json[i]),
                                StatusOf(generations_json'[i]))
       /\ last_run'.op \in {"review", "commit"} =>
             \A i \in 1..Len(generation_history) :
                /\ i <= Len(generation_history')
                /\ LegalStatusStep(StatusOf(generation_history[i]),
                                   StatusOf(generation_history'[i]))]_vars

\* one generation was committed and its status reached the log file, while
\* another was tried and its commit did not succeed
C6_Witness ==
    /\ \E i \in 1..Len(generations_json) :
          StatusOf(generations_json[i]) = "committed"
    /\ last_run.op = "commit"
    /\ \E k \in 1..Len(last_run.commits) : ~last_run.commits[k].success

(***************************************************************************)
(* Claims about the item store                                             *)
(***************************************************************************)
\* C7: after any sequence of collection runs the item store holds at most
\* one item per URL, whether the same URL came back in different collect_all
\* calls or from two topic searches of one call.
C7_AtMostOneItemPerUrl ==
    \A i, j \in 1..Len(collected_info_json) :
        i # j => collected_info_json[i]["url"] # collected_info_json[j]["url"]

StoredIds(items) == {Get(items[i], "id", None) : i \in 1..Len(items)}

\* the entry update_item_status finds for an id
ItemById(items, item_id) == items[FirstWithId(items, item_id)]

StatusRank(status) ==
    CASE status = "pending_evaluation" -> 0
      [] status = "evaluated" -> 1
      [] status = "code_generated" -> 2
      [] OTHER -> 3

\* C8: the status of an item in the persisted store never decreases in the
\* order pending_evaluation < evaluated < code_generated, over collect,
\* Evaluate, Generate and Cleanup runs of one orchestrator process.
C8_ItemStatusNonDecreasing ==
    [][\A id \in StoredIds(collected_info_json) \cap StoredIds(collected_info_json') :
          StatusRank(ItemById(collected_info_json', id)["status"])
             >= StatusRank(ItemById(collected_info_json, id)["status"])]_vars

\* C9: once an evaluation is attached to an item, no later operation changes
\* or replaces it for as long as the item is in the store.
C9_EvaluationNeverReplaced ==
    [][\A id \in StoredIds(collected_info_json) \cap StoredIds(collected_info_json') :
          "evaluation" \in DOMAIN ItemById(collected_info_json, id) =>
             /\ "evaluation" \in DOMAIN ItemById(collected_info_json', id)
             /\ ItemById(collected_info_json', id)["evaluation"]
                   = ItemById(collected_info_json, id)["evaluation"]]_vars

IsFallbackEvaluation(ev) ==
    /\ Get(ev, "recommendation", None) = "consider"
    /\ Get(ev, "quality_score", 0) = 50
    /\ Get(ev, "relevance_score", 0) = 50
    /\ Get(ev, "novelty_score", 0) = 50
    /\ Get(ev, "practicality_score", 0) = 50
    /\ "error" \in DOMAIN ev

\* C10: when evaluate(item) fails, the evaluation returned recommends
\* "consider" with the four sub-scores 0.5 and carries the error, the
\* Evaluate stage still moves the item of that id to "evaluated", and it
\* goes on to evaluate the remaining pending items, each of which ends
\* "evaluated" with an evaluation attached.
C10_FallbackEvaluationContinues ==
    last_run.op = "evaluate" =>
        \A k \in 1..Len(last_run.positions) :
            last_run.outcomes[k] = "fail" =>
                /\ IsFallbackEvaluation(last_run.evaluations[k])
                /\ \A j \in k..Len(last_run.positions) :
                      LET id == last_run.evaluations[j]["item_id"]
                          item == ItemById(collected_data, id)
                      IN /\ id \in StoredIds(collected_data)
                         /\ item["status"] = "evaluated"
                         /\ "evaluation" \in DOMAIN item
                         /\ item["evaluation"]["item_id"] = id
                         /\ ItemById(collected_info_json, id) = item

\* an Evaluate stage run over two items in which the first evaluation failed
\* and the second was answered
C10_Witness ==
    /\ last_run.op = "evaluate"
    /\ Len(last_run.positions) = 2
    /\ last_run.outcomes[1] = "fail"
    /\ last_run.outcomes[2] = "adopt"
    /\ last_run.evaluations[1]["item_id"] # last_run.evaluations[2]["item_id"]
    /\ collected_data[2]["evaluation"]["recommendation"] = "adopt"

(***************************************************************************)
(* CodeGenerator._repair_json and the json.loads of _generate_single_change *)
(*                                                                         *)
(* A text is a sequence of one-character strings over the structural       *)
(* characters of JSON, the backslash, and "1", which stands for a digit    *)
(* and for any ordinary character of a string.                             *)
(***************************************************************************)
PipeIdle ==
    /\ collected_data = << >>
    /\ collected_info_json = << >>
    /\ generation_history = << >>
    /\ generations_json = << >>
    /\ now = 0
    /\ last_run = [op |-> "none"]

\* the longest string literal of a text, in characters and escapes
MaxStrLen == 2

\* the most characters a model answer loses at its end
MaxCut == 2

Quote == "\""

Backslash == "\\"

\* str.count(c) for a single character
count(str, c) == Cardinality({i \in 1..Len(str) : str[i] = c})

\* c * n
Repeat(c, n) == [i \in 1..n |-> c]

\* _repair_json without the closing of an open string
repair_json_brackets_only(json_str) ==
    LET open_braces == count(json_str, "{") - count(json_str, "}")
        open_brackets == count(json_str, "[") - count(json_str, "]")
        a == IF open_brackets > 0
             THEN json_str \o Repeat("]", open_brackets) ELSE json_str
    IN IF open_braces > 0 THEN a \o Repeat("}", open_braces) ELSE a

repair_json(json_str) ==
    LET closed == IF count(json_str, Quote) % 2 = 1
                  THEN Append(json_str, Quote) ELSE json_str
        open_braces == count(closed, "{") - count(closed, "}")
        open_brackets == count(closed, "[") - count(closed, "]")
        a == IF open_brackets > 0
             THEN closed \o Repeat("]", open_brackets) ELSE closed
    IN IF open_braces > 0 THEN a \o Repeat("}", open_braces) ELSE a

\* json.loads: the scanners return the position after what they read, 0 when
\* the text is not JSON there
RECURSIVE ScanString(_, _)
ScanString(str, i) ==
    IF i > Len(str) THEN 0
    ELSE IF str[i] = Quote THEN i + 1
    ELSE IF str[i] = Backslash
         THEN IF i + 1 <= Len(str) /\ str[i + 1] \in {Quote, Backslash}
              THEN ScanString(str, i + 2) ELSE 0
    ELSE ScanString(str, i + 1)

RECURSIVE ScanDigits(_, _)
ScanDigits(str, i) ==
    IF i <= Len(str) /\ str[i] = "1" THEN ScanDigits(str, i + 1) ELSE i

RECURSIVE ParseValue(_, _)
RECURSIVE ParseMembers(_, _)
RECURSIVE ParseElements(_, _)
ParseValue(str, i) ==
    IF i > Len(str) THEN 0
    ELSE CASE str[i] = Quote -> ScanString(str, i + 1)
           [] str[i] = "1" -> ScanDigits(str, i)
           [] str[i] = "{" -> IF i + 1 <= Len(str) /\ str[i + 1] = "}"
                              THEN i + 2 ELSE ParseMembers(str, i + 1)
           [] str[i] = "[" -> IF i + 1 <= Len(str) /\ str[i + 1] = "]"
                              THEN i + 2 ELSE ParseElements(str, i + 1)
           [] OTHER -> 0

ParseMembers(str, i) ==
    IF i > Len(str) \/ str[i] # Quote THEN 0
    ELSE LET k == ScanString(str, i + 1) IN
         IF k = 0 \/ k > Len(str) \/ str[k] # ":" THEN 0
         ELSE LET v == ParseValue(str, k + 1) IN
              IF v = 0 \/ v > Len(str) THEN 0
              ELSE IF str[v] = "}" THEN v + 1
              ELSE IF str[v] = "," THEN ParseMembers(str, v + 1)
              ELSE 0

ParseElements(str, i) ==
    LET v == ParseValue(str, i) IN
    IF v = 0 \/ v > Len(str) THEN 0
    ELSE IF str[v] = "]" THEN v + 1
    ELSE IF str[v] = "," THEN ParseElements(str, v + 1)
    ELSE 0

\* json.loads(str) does not raise
IsValidJSON(str) == ParseValue(str, 1) = Len(str) + 1

\* the contents of a string literal: ordinary characters, structural
\* characters, the escaped quote and the escaped backslash
StringAtoms ==
    {<<"1">>, <<"{">>, <<"}">>, <<"[">>, <<"]">>,
     <<Backslash, Quote>>, <<Backslash, Backslash>>}

RECURSIVE Contents(_)
Contents(n) ==
    IF n = 0 THEN {<< >>}
    ELSE Contents(n - 1) \cup
         {c \o a : c \in Contents(n - 1), a \in StringAtoms}

StringLiterals(n) == {<<Quote>> \o c \o <<Quote>> : c \in Contents(n)}

Arrays ==
    {<<"[", "]">>} \cup {<<"[">> \o e \o <<"]">> : e \in StringLiterals(1)}

Values == StringLiterals(MaxStrLen) \cup Arrays \cup {<<"1">>}

Key == <<Quote, "1", Quote>>

\* the JSON texts a model answer may hold
JsonTexts ==
    Values
    \cup {<<"{">> \o Key \o <<":">> \o v \o <<"}">> : v \in Values}
    \cup {<<"{">> \o Key \o <<":">> \o a \o <<",">> \o Key \o <<":">> \o v \o <<"}">> :
            a \in Arrays, v \in StringLiterals(MaxStrLen)}

JsonInit ==
    /\ GateIdle
    /\ PipeIdle
    /\ ValIdle
    /\ CallIdle
    /\ CommitIdle
    /\ CycleIdle
    /\ json_orig \in JsonTexts
    /\ json_in = json_orig
    /\ json_out = << >>
    /\ json_pc = "input"

\* the answer arrives without its last characters
JsonCut ==
    /\ json_pc = "input"
    /\ \E n \in 1..MaxCut :
          /\ n <= Len(json_orig)
          /\ json_in' = SubSeq(json_orig, 1, Len(json_orig) - n)
    /\ json_pc' = "cut"
    /\ UNCHANGED <<json_orig, json_out>>
    /\ UNCHANGED <<gateVars, pipeVars, valVars, callVars, commitVars, cycleVars>>

RepairJson ==
    /\ json_pc \in {"input", "cut"}
    /\ json_out' = [text |-> repair_json(json_in)]
    /\ json_pc' = "repaired"
    /\ UNCHANGED <<json_orig, json_in>>
    /\ UNCHANGED <<gateVars, pipeVars, valVars, callVars, commitVars, cycleVars>>

\* _generate_single_change: json.loads, and on a decode error the repair and
\* json.loads again
LoadJson ==
    /\ json_pc \in {"input", "cut"}
    /\ json_out' =
          IF IsValidJSON(json_in) THEN [text |-> json_in, parsed |-> "raw"]
          ELSE IF IsValidJSON(repair_json(json_in))
               THEN [text |-> repair_json(json_in), parsed |-> "repaired"]
          ELSE [text |-> repair_json(json_in), parsed |-> "error"]
    /\ json_pc' = "loaded"
    /\ UNCHANGED <<json_orig, json_in>>
    /\ UNCHANGED <<gateVars, pipeVars, valVars, callVars, commitVars, cycleVars>>

JsonNext == JsonCut \/ RepairJson \/ LoadJson

SpecJson == JsonInit /\ [][JsonNext]_vars

\* every text of JsonTexts is JSON
JsonTextsAreValid == IsValidJSON(json_orig)

\* C14: for every string that is already valid JSON, string values with
\* escaped quotes, braces or brackets included, _repair_json returns its
\* input unchanged.
C14_RepairLeavesValidJson ==
    (json_pc = "repaired" /\ IsValidJSON(json_in)) => json_out.text = json_in

\* a JSON object whose last member is a string value
EndsWithStringValue(str) ==
    /\ IsValidJSON(str)
    /\ str[1] = "{"
    /\ Len(str) >= 2
    /\ str[Len(str) - 1] = Quote
    /\ str[Len(str)] = "}"

\* C15: for every valid JSON object text that ends with a string value and
\* the closing brace, the text without its final quote and final brace is
\* repaired by _repair_json into a string that parses as JSON.
C15_RepairRestoresCutObject ==
    (/\ json_pc = "repaired"
     /\ EndsWithStringValue(json_orig)
     /\ json_in = SubSeq(json_orig, 1, Len(json_orig) - 2))
        => IsValidJSON(json_out.text)

\* texts whose string values hold only ordinary characters: no backslash,
\* and every brace and bracket stands outside the string literals
PlainText(str) ==
    /\ count(str, Backslash) = 0
    /\ \A i \in 1..Len(str) :
          str[i] \in {"{", "}", "[", "]"} =>
             count(SubSeq(str, 1, i), Quote) % 2 = 0

\* C14 and C15 restricted to texts whose string values hold only ordinary
\* characters
RepairOnPlainTexts ==
    PlainText(json_orig) => (C14_RepairLeavesValidJson /\ C15_RepairRestoresCutObject)

(***************************************************************************)
(* CodeGenerator._validate_generation                                      *)
(*                                                                         *)
(* A diff is modelled by the numbers the validation takes from it: its     *)
(* length, its length after strip(), the count of its characters that are  *)
(* not blank, the counts of each bracket and of the triple quotes, and     *)
(* whether compile() of its added lines raises a SyntaxError that the code *)
(* does not tolerate.                                                      *)
(***************************************************************************)
\* the most brackets of one kind and one direction in a diff
MaxBrackets == 3

\* len(diff.strip()) < 10
MIN_DIFF_LENGTH == 10

\* open_parens > 2 or open_brackets > 2 or open_braces > 2
BRACKET_TOLERANCE == 2

required_fields == <<"file_path", "function_name", "diff", "commit_message">>

BracketKinds == {"parens", "brackets", "braces"}

BaseDiff ==
    [length |-> 40, stripped |-> 40, nonblank |-> 30,
     parens |-> [open |-> 1, close |-> 1],
     brackets |-> [open |-> 0, close |-> 0],
     braces |-> [open |-> 0, close |-> 0],
     triple_double |-> 0, triple_single |-> 0, syntax_error |-> FALSE]

\* the empty string
EmptyDiff ==
    [BaseDiff EXCEPT !.length = 0, !.stripped = 0, !.nonblank = 0,
                     !.parens = [open |-> 0, close |-> 0]]

\* a diff that is JSON null
NullDiff == [null |-> TRUE]

BaseResult ==
    [file_path |-> "f1", function_name |-> "fn", diff |-> BaseDiff,
     commit_message |-> "msg"]

\* diffs that differ from BaseDiff in the brackets of one kind
BracketDiffs ==
    {[BaseDiff EXCEPT ![kind] = [open |-> o, close |-> c]] :
        kind \in BracketKinds, o \in 0..MaxBrackets, c \in 0..MaxBrackets}

\* diffs at the edges of the other checks
EdgeDiffs ==
    {[BaseDiff EXCEPT !.length = 12, !.stripped = MIN_DIFF_LENGTH, !.nonblank = 8],
     [BaseDiff EXCEPT !.length = 12, !.stripped = MIN_DIFF_LENGTH - 1, !.nonblank = 9],
     [BaseDiff EXCEPT !.length = 3, !.stripped = 0, !.nonblank = 0,
                      !.parens = [open |-> 0, close |-> 0]],
     EmptyDiff,
     [BaseDiff EXCEPT !.triple_double = 1],
     [BaseDiff EXCEPT !.triple_double = 2],
     [BaseDiff EXCEPT !.triple_single = 1],
     [BaseDiff EXCEPT !.syntax_error = TRUE]}

\* the dicts json.loads may return for a model answer
ModelResults ==
    {[BaseResult EXCEPT !.diff = d] : d \in BracketDiffs \cup EdgeDiffs \cup {NullDiff}}
    \cup {Restrict(BaseResult, {required_fields[i] : i \in 1..4} \ {f}) :
            f \in {required_fields[i] : i \in 1..4}}

\* bool(diff) of a str or None
DiffTruthy(diff) == diff # NullDiff /\ diff.length > 0

Opened(diff, kind) == diff[kind].open - diff[kind].close

\* _validate_generation without the required-fields loop
validate_errors_no_fields(generation) ==
    LET diff == Get(generation, "diff", EmptyDiff) IN
    (IF ~DiffTruthy(diff) \/ diff.stripped < MIN_DIFF_LENGTH
        THEN <<"diff_short">> ELSE << >>)
    \o (IF DiffTruthy(diff) /\ \E kind \in BracketKinds :
                                  Opened(diff, kind) > BRACKET_TOLERANCE
        THEN <<"unbalanced">> ELSE << >>)
    \o (IF DiffTruthy(diff) /\ diff.triple_double % 2 = 1
        THEN <<"triple_double">> ELSE << >>)
    \o (IF DiffTruthy(diff) /\ diff.triple_single % 2 = 1
        THEN <<"triple_single">> ELSE << >>)
    \o (IF diff.syntax_error THEN <<"syntax">> ELSE << >>)

\* the list errors of _validate_generation, for a diff that is a str
validate_errors(generation) ==
    LET diff == Get(generation, "diff", EmptyDiff) IN
    SelectSeq(required_fields, LAMBDA field : field \notin DOMAIN generation)
    \o (IF ~DiffTruthy(diff) \/ diff.stripped < MIN_DIFF_LENGTH
        THEN <<"diff_short">> ELSE << >>)
    \o (IF DiffTruthy(diff) /\ \E kind \in BracketKinds :
                                  Opened(diff, kind) > BRACKET_TOLERANCE
        THEN <<"unbalanced">> ELSE << >>)
    \o (IF DiffTruthy(diff) /\ diff.triple_double % 2 = 1
        THEN <<"triple_double">> ELSE << >>)
    \o (IF DiffTruthy(diff) /\ diff.triple_single % 2 = 1
        THEN <<"triple_single">> ELSE << >>)
    \o (IF diff.syntax_error THEN <<"syntax">> ELSE << >>)

\* _validate_generation: diff.split raises AttributeError on a null diff
validate_generation(generation) ==
    IF Get(generation, "diff", EmptyDiff) = NullDiff
    THEN [raised |-> TRUE, is_valid |-> FALSE, errors |-> << >>]
    ELSE [raised |-> FALSE,
          is_valid |-> validate_errors(generation) = << >>,
          errors |-> validate_errors(generation)]

ValInit ==
    /\ GateIdle
    /\ PipeIdle
    /\ JsonIdle
    /\ CallIdle
    /\ CommitIdle
    /\ CycleIdle
    /\ val_generation \in ModelResults
    /\ val_out = << >>
    /\ val_pc = "input"

ValidateGeneration ==
    /\ val_pc = "input"
    /\ val_out' = validate_generation(val_generation)
    /\ val_pc' = "validated"
    /\ UNCHANGED val_generation
    /\ UNCHANGED <<gateVars, pipeVars, jsonVars, callVars, commitVars, cycleVars>>

ValNext == ValidateGeneration

SpecValidate == ValInit /\ [][ValNext]_vars

\* the counts of openers and closers of some kind differ by more than 2
NetUnbalanced(diff) ==
    \E kind \in BracketKinds :
        \/ diff[kind].open - diff[kind].close > 2
        \/ diff[kind].close - diff[kind].open > 2

\* C16: _validate_generation rejects every diff in which the openers and
\* closers of parentheses, square brackets or braces differ by more than 2,
\* and does not reject a diff for an imbalance of at most 2.
C16_RejectsNetUnbalanced ==
    (/\ val_pc = "validated"
     /\ "diff" \in DOMAIN val_generation
     /\ DiffTruthy(val_generation["diff"]))
        => /\ NetUnbalanced(val_generation["diff"]) => ~val_out.is_valid
           /\ ~NetUnbalanced(val_generation["diff"]) =>
                 \A i \in 1..Len(val_out.errors) : val_out.errors[i] # "unbalanced"

(***************************************************************************)
(* CodeGenerator.generate                                                  *)
(***************************************************************************)
\* for attempt in range(max_retries)
max_retries == 3

\* the most target files _gather_context resolves
MaxTargets == 2

\* context["target_files"], as file numbers in the order of the dict
TargetLists == {[i \in 1..n |-> i] : n \in 0..MaxTargets}

\* an answer that is JSON
AnswerValid == <<"{", Quote, "1", Quote, ":", Quote, "1", Quote, "}">>

\* the same answer cut inside its string value
AnswerCut == SubSeq(AnswerValid, 1, 7)

\* an answer cut inside a string value that holds a bracket
AnswerBroken == <<"{", Quote, "1", Quote, ":", Quote, "[">>

\* the dicts the answers of one generate call may parse to
GenResults ==
    {BaseResult,
     [BaseResult EXCEPT !.diff =
        [BaseDiff EXCEPT !.length = 12, !.stripped = MIN_DIFF_LENGTH, !.nonblank = 8]],
     [BaseResult EXCEPT !.diff =
        [BaseDiff EXCEPT !.length = 12, !.stripped = MIN_DIFF_LENGTH - 1, !.nonblank = 9]],
     [BaseResult EXCEPT !.diff = [BaseDiff EXCEPT !.triple_double = 1]],
     [BaseResult EXCEPT !.diff = [BaseDiff EXCEPT !.parens = [open |-> 3, close |-> 0]]],
     [BaseResult EXCEPT !.diff = NullDiff],
     Restrict(BaseResult, {"file_path", "diff", "commit_message"})}

\* what one call of the model meets: the call raises, or it answers a text
\* that json.loads turns into result when the text (repaired or not) parses
Responses ==
    {[raises |-> TRUE, text |-> << >>, result |-> << >>],
     [raises |-> FALSE, text |-> AnswerBroken, result |-> << >>]}
    \cup {[raises |-> FALSE, text |-> t, result |-> r] :
            t \in {AnswerValid, AnswerCut}, r \in GenResults}

\* _generate_single_change: the exception it raises, or the dict it returns
generate_single_change(response) ==
    IF response.raises
    THEN [raised |-> "Exception", generation |-> << >>, parsed |-> None]
    ELSE IF IsValidJSON(response.text)
    THEN [raised |-> None, generation |-> response.result, parsed |-> "raw"]
    ELSE IF IsValidJSON(repair_json(response.text))
    THEN [raised |-> None, generation |-> response.result, parsed |-> "repaired"]
    ELSE [raised |-> "JSONDecodeError", generation |-> << >>, parsed |-> None]

\* one pass of the retry loop: the model call, the parse and the validation
\* (errors are last_error, or the errors of the validation)
attempt(response, file_path) ==
    LET single_change == generate_single_change(response)
        checked == validate_generation(single_change.generation)
    IN IF single_change.raised # None
       THEN [file_path |-> file_path, outcome |-> single_change.raised,
             errors |-> <<single_change.raised>>, parsed |-> None,
             single_change |-> << >>]
       ELSE IF checked.raised
       THEN [file_path |-> file_path, outcome |-> "Exception",
             errors |-> <<"AttributeError">>, parsed |-> single_change.parsed,
             single_change |-> << >>]
       ELSE [file_path |-> file_path,
             outcome |-> IF checked.is_valid THEN "valid" ELSE "invalid",
             errors |-> checked.errors, parsed |-> single_change.parsed,
             single_change |-> single_change.generation]

\* the retry loop with one attempt fewer
RECURSIVE attempt_loop_one_fewer(_, _, _)
attempt_loop_one_fewer(responses, file_path, k) ==
    IF k > max_retries - 1 THEN << >>
    ELSE LET a == attempt(responses[k], file_path) IN
         IF a.outcome = "valid" THEN <<a>>
         ELSE <<a>> \o attempt_loop_one_fewer(responses, file_path, k + 1)

\* the retry loop without the break after a valid attempt
RECURSIVE attempt_loop_no_break(_, _, _)
attempt_loop_no_break(responses, file_path, k) ==
    IF k > max_retries THEN << >>
    ELSE <<attempt(responses[k], file_path)>>
         \o attempt_loop_no_break(responses, file_path, k + 1)

\* for attempt in range(max_retries): the attempts made from attempt k on
RECURSIVE attempt_loop(_, _, _)
attempt_loop(responses, file_path, k) ==
    IF k > max_retries THEN << >>
    ELSE LET a == attempt(responses[k], file_path) IN
         IF a.outcome = "valid" THEN <<a>>
         ELSE <<a>> \o attempt_loop(responses, file_path, k + 1)

\* validation_errors: only a failed validation extends it
RECURSIVE validation_errors(_)
validation_errors(attempts) ==
    IF attempts = << >> THEN << >>
    ELSE (IF Head(attempts).outcome = "invalid" THEN Head(attempts).errors ELSE << >>)
         \o validation_errors(Tail(attempts))

all_changes(attempts) ==
    LET valid == SelectSeq(attempts, LAMBDA a : a.outcome = "valid")
    IN [i \in 1..Len(valid) |-> valid[i].single_change]

create_fallback_generation(item, error) ==
    [file_path |-> None, function_name |-> None, diff |-> NullDiff,
     error |-> error, source_item_id |-> Get(item, "id", None),
     target_repo |-> Get(item, "target_repo", TARGET_REPOS[1]),
     status |-> "failed", changes |-> << >>]

\* generate: the dict it returns, the attempts it made (one model call
\* each) and whether it appended the dict to the history and saved
generate(item, target_files, responses) ==
    IF target_files = << >>
    THEN [generation |-> create_fallback_generation(item, <<"no target file">>),
          attempts |-> << >>, recorded |-> FALSE]
    ELSE LET attempts == attempt_loop(responses, target_files[1], 1)
             changes == all_changes(attempts)
             errors == validation_errors(attempts)
         IN IF changes = << >>
            THEN [generation |->
                     create_fallback_generation(item,
                        <<"all files failed">> \o
                        (IF errors # << >> THEN errors ELSE <<"Unknown error">>)),
                  attempts |-> attempts, recorded |-> FALSE]
            ELSE [generation |->
                     [file_path |-> Get(changes[1], "file_path", None),
                      function_name |-> Get(changes[1], "function_name", None),
                      diff |-> Get(changes[1], "diff", NullDiff),
                      commit_message |-> Get(changes[1], "commit_message", ""),
                      source_item_id |-> Get(item, "id", None),
                      target_repo |-> Get(item, "target_repo", TARGET_REPOS[1]),
                      status |-> "pending_review",
                      changes |-> changes],
                  attempts |-> attempts, recorded |-> TRUE]

\* the adopted item run_generation hands to generate
AdoptedItem == Put(EvaluatedItem("u1", "adopt"), "target_repo", TARGET_REPOS[1])

\* a generation an earlier call of generate recorded
EarlierGeneration ==
    generate(AdoptedItem, <<1>>,
             [k \in 1..max_retries |->
                [raises |-> FALSE, text |-> AnswerValid, result |-> BaseResult]]).generation

GenInit ==
    /\ GateIdle
    /\ JsonIdle
    /\ ValIdle
    /\ CommitIdle
    /\ CycleIdle
    /\ now = 0
    /\ collected_data = << >>
    /\ collected_info_json = << >>
    /\ generation_history \in {<< >>, <<EarlierGeneration>>}
    /\ generations_json = generation_history
    /\ last_run = [op |-> "none"]
    /\ gen_input \in [item : {AdoptedItem}, target_files : TargetLists,
                      responses : [1..max_retries -> Responses]]
    /\ gen_out = << >>
    /\ gen_pc = "input"

Generate ==
    /\ gen_pc = "input"
    /\ gen_out' = generate(gen_input.item, gen_input.target_files, gen_input.responses)
    /\ generation_history' =
          IF gen_out'.recorded THEN Append(generation_history, gen_out'.generation)
          ELSE generation_history
    /\ generations_json' =
          IF gen_out'.recorded THEN generation_history' ELSE generations_json
    /\ gen_pc' = "done"
    /\ UNCHANGED <<gen_input, collected_data, collected_info_json, now, last_run>>
    /\ UNCHANGED <<gateVars, jsonVars, valVars, commitVars, cycleVars>>

GenNext == Generate

SpecGenerate == GenInit /\ [][GenNext]_vars

(***************************************************************************)
(* Claims about generate                                                   *)
(***************************************************************************)
\* the answer parses, raw or after repair, to a result that passes the
\* checks the specification lists
ResponseValid(r) ==
    /\ ~r.raises
    /\ IsValidJSON(r.text) \/ IsValidJSON(repair_json(r.text))
    /\ \A i \in 1..Len(required_fields) : required_fields[i] \in DOMAIN r.result
    /\ r.result["diff"] # NullDiff
    /\ r.result["diff"].stripped >= 10
    /\ \A kind \in BracketKinds :
          r.result["diff"][kind].open - r.result["diff"][kind].close <= 2
    /\ r.result["diff"].triple_double % 2 = 0
    /\ r.result["diff"].triple_single % 2 = 0
    /\ ~r.result["diff"].syntax_error

GenerateDone == gen_pc = "done" /\ gen_input.target_files # << >>

\* C11: if every model response for an item is invalid and a target file
\* resolves, generate calls the model exactly 3 times, each for the first
\* resolved target file, and returns a fallback generation with status
\* "failed", no diff and an empty changes list.
C11_RetryExhaustion ==
    (/\ GenerateDone
     /\ \A k \in 1..3 : ~ResponseValid(gen_input.responses[k]))
        => /\ Len(gen_out.attempts) = 3
           /\ \A k \in 1..3 :
                 gen_out.attempts[k].file_path = gen_input.target_files[1]
           /\ gen_out.generation["status"] = "failed"
           /\ gen_out.generation["diff"] = NullDiff
           /\ gen_out.generation["changes"] = << >>
           /\ generation_history = generations_json
           /\ \A i \in 1..Len(generation_history) :
                 generation_history[i] # gen_out.generation

\* two target files resolved and the three answers failed in three ways
C11_Witness ==
    /\ GenerateDone
    /\ Len(gen_input.target_files) = 2
    /\ gen_out.attempts[1].outcome = "JSONDecodeError"
    /\ gen_out.attempts[2].outcome = "invalid"
    /\ gen_out.attempts[3].outcome = "Exception"
    /\ gen_out.generation["status"] = "failed"

\* the index of the first valid response, 0 when there is none
FirstValid(responses) ==
    IF \E k \in 1..Len(responses) : ResponseValid(responses[k])
    THEN CHOOSE k \in 1..Len(responses) :
            /\ ResponseValid(responses[k])
            /\ \A j \in 1..(k - 1) : ~ResponseValid(responses[j])
    ELSE 0

\* C12: generate stops at the first attempt whose response is parsed (raw
\* or after repair) and validated: no model call follows it, the generation
\* returned is built from that attempt's result with status
\* "pending_review", and it is appended to the generation history; the
\* result of an attempt that failed validation is not returned or recorded.
C12_StopsAtFirstValid ==
    (GenerateDone /\ FirstValid(gen_input.responses) # 0)
        => LET k == FirstValid(gen_input.responses)
               result == gen_input.responses[k].result
               g == gen_out.generation
           IN /\ Len(gen_out.attempts) = k
              /\ g["status"] = "pending_review"
              /\ g["changes"] = <<result>>
              /\ g["file_path"] = result["file_path"]
              /\ g["function_name"] = result["function_name"]
              /\ g["diff"] = result["diff"]
              /\ g["commit_message"] = result["commit_message"]
              /\ generation_history # << >>
              /\ generation_history[Len(generation_history)] = g
              /\ generations_json = generation_history

\* the first answer failed validation, the second parsed only after repair
\* and was valid, and the history already held a generation
C12_Witness ==
    /\ GenerateDone
    /\ Len(gen_out.attempts) = 2
    /\ gen_out.attempts[1].outcome = "invalid"
    /\ gen_out.attempts[2].outcome = "valid"
    /\ gen_out.attempts[2].parsed = "repaired"
    /\ Len(generation_history) = 2
    /\ ResponseValid(gen_input.responses[3])

\* C13: every failed attempt, whether it failed by JSON parse error, by
\* repair failure or by validation failure, contributes its error to the
\* error list, and when all 3 attempts fail the error text of the fallback
\* generation contains the errors of all failed attempts.
C13_FallbackCarriesAllErrors ==
    (GenerateDone /\ gen_out.generation["status"] = "failed")
        => \A k \in 1..Len(gen_out.attempts) :
              \A i \in 1..Len(gen_out.attempts[k].errors) :
                 \E j \in 1..Len(gen_out.generation["error"]) :
                    gen_out.generation["error"][j] = gen_out.attempts[k].errors[i]

\* the model result a recorded generation was built from
SourceResult(g) == g["changes"][1]

\* C17, as it holds: every generation recorded in the generation history
\* came from a model result that contains file_path, function_name, diff and
\* commit_message, whose diff after strip() has at least 10 characters
\* (blanks inside the diff counted), and in which the counts of the two
\* triple quotes are even; whether the JSON parsed directly or after repair.
C17_RecordedGenerationsValidated ==
    gen_pc = "done" =>
        \A i \in 1..Len(generation_history) :
            LET r == SourceResult(generation_history[i]) IN
                /\ \A f \in 1..Len(required_fields) : required_fields[f] \in DOMAIN r
                /\ r["diff"] # NullDiff
                /\ r["diff"].stripped >= 10
                /\ r["diff"].triple_double % 2 = 0
                /\ r["diff"].triple_single % 2 = 0

\* a generation was recorded from an answer that parsed only after repair,
\* after an answer without function_name was refused
C17_Witness ==
    /\ GenerateDone
    /\ gen_out.recorded
    /\ gen_out.attempts[Len(gen_out.attempts)].parsed = "repaired"
    /\ \E k \in 1..Len(gen_out.attempts) :
          /\ gen_out.attempts[k].outcome = "invalid"
          /\ gen_out.attempts[k].errors = <<"function_name">>

\* C17 as stated: the diff of the model result has at least 10 non-blank
\* characters.
C17_TenNonBlankCharacters ==
    gen_pc = "done" =>
        \A i \in 1..Len(generation_history) :
            LET r == SourceResult(generation_history[i]) IN
                /\ \A f \in 1..Len(required_fields) : required_fields[f] \in DOMAIN r
                /\ r["diff"] # NullDiff
                /\ r["diff"].nonblank >= 10
                /\ r["diff"].triple_double % 2 = 0
                /\ r["diff"].triple_single % 2 = 0

(***************************************************************************)
(* GitCommitter.commit                                                     *)
(***************************************************************************)
\* the most calls of commit in one behaviour
MaxCommits == 2

\* one GitCommitter per target repository
Committers == Repos

\* the history a committer starts from when logs/commits.json is absent
EmptyCommitHistory == [commits |-> << >>, statistics |-> << >>]

\* the branch commit works on ("dna-auto/<timestamp>")
WorkBranch == "dna-auto"

\* what the git commands and the file system of one call of commit do:
\*   branch    "checkout -b" succeeds, fails and "checkout" succeeds, both fail
\*   applied   apply_changes applied the change of the generation
\*   commit, rev_parse, push, branch_d   the command succeeds
\*   main      "checkout main" succeeds, fails and "checkout master"
\*             succeeds, both fail
\*   merge     "merge" succeeds, stops on a conflict, fails otherwise
\*   save      _save_commit_history writes the file (FALSE: it raises)
GitRuns ==
    [branch : {"created", "existing", "failed"}, applied : BOOLEAN,
     commit : BOOLEAN, rev_parse : BOOLEAN,
     main : {"main", "master", "failed"},
     merge : {"merged", "conflict", "failed"},
     push : BOOLEAN, branch_d : BOOLEAN, save : BOOLEAN]

\* the outcomes the call does not reach keep one value
Consulted(call) ==
    LET git == call.git
        staged == git.branch # "failed" /\ git.applied
        committed == staged /\ git.commit
        merging == committed /\ call.reviewed
        on_main == merging /\ git.main # "failed"
        merged == on_main /\ git.merge = "merged"
    IN /\ git.branch = "failed" => git.applied
       /\ ~staged => git.commit /\ git.save
       /\ ~committed => git.rev_parse
       /\ ~merging => git.main = "main"
       /\ ~on_main => git.merge = "merged"
       /\ ~merged => git.push
       /\ ~(merged /\ git.push) => git.branch_d

\* the arguments and outcomes of one call of commit
CommitCalls == {call \in [reviewed : BOOLEAN, git : GitRuns] : Consulted(call)}

\* the generation run_commit hands to commit
ApprovedGeneration(gen) ==
    [file_path |-> "f1", diff |-> BaseDiff, commit_message |-> "msg",
     source_item_id |-> gen, status |-> "approved"]

\* _update_statistics
update_statistics(stats, result) ==
    LET counted == Put(stats, "total_commits", Get(stats, "total_commits", 0) + 1)
    IN IF result["success"]
       THEN Put(counted, "successful_commits",
                Get(counted, "successful_commits", 0) + 1)
       ELSE Put(counted, "failed_commits", Get(counted, "failed_commits", 0) + 1)

\* git merge --abort: the merge in progress is given up
merge_abort(repo) == [repo EXCEPT !.merging = FALSE]

\* _merge_and_push: what it returns, the git commands it ran and the
\* repository it leaves
merge_and_push(git, repo) ==
    LET to_main == IF git.main = "main" THEN <<"checkout main">>
                   ELSE <<"checkout main", "checkout master">>
        on_main == [repo EXCEPT !.head = git.main]
    IN IF git.main = "failed"
       THEN [merged |-> FALSE, log |-> to_main, repo |-> repo]
       ELSE IF git.merge # "merged"
       THEN [merged |-> FALSE, log |-> to_main \o <<"merge", "merge --abort">>,
             repo |-> merge_abort([on_main EXCEPT !.merging = (git.merge = "conflict")])]
       ELSE IF ~git.push
       THEN [merged |-> FALSE, log |-> to_main \o <<"merge", "push">>,
             repo |-> on_main]
       ELSE [merged |-> TRUE,
             log |-> to_main \o <<"merge", "push", "branch -d">>,
             repo |-> on_main]

\* the merge is asked for after every git commit, reviewed or not
merge_requested_unreviewed(reviewed, success) == success

\* if success: ... if reviewed: merge_success = self._merge_and_push(...)
merge_requested(reviewed, success) == success /\ reviewed

\* commit: the result dict it returns (its timestamp left out), the git
\* commands it ran, the repository and the commit history it leaves, and
\* whether it wrote logs/commits.json
commit(generation, reviewed, git, repo, history) ==
    LET result == [success |-> FALSE, commit_hash |-> None, branch |-> None,
                   files_changed |-> << >>, error |-> None]
        branch_log == <<"branch --show-current", "checkout -b">>
                      \o (IF git.branch = "created" THEN << >> ELSE <<"checkout">>)
        on_branch == [repo EXCEPT !.head = WorkBranch]
        \* the change is written to the working tree and staged; git commit
        \* takes everything that is staged
        applied == [on_branch EXCEPT
                      !.uncommitted = @ \cup {generation.source_item_id}]
        clean == [on_branch EXCEPT !.uncommitted = {}]
        staged == [result EXCEPT !.branch = WorkBranch,
                                 !.files_changed = <<generation.file_path>>]
        committed ==
            IF git.commit
            THEN [result |-> [staged EXCEPT
                                !.commit_hash = IF git.rev_parse THEN "hash" ELSE None,
                                !.success = TRUE],
                  log |-> branch_log \o <<"add", "commit", "rev-parse HEAD">>,
                  repo |-> clean]
            ELSE [result |-> [staged EXCEPT !.error = "commit failed"],
                  log |-> branch_log \o <<"add", "commit">>,
                  repo |-> applied]
        pushed == merge_and_push(git, clean)
        finished ==
            IF merge_requested(reviewed, git.commit)
            THEN [result |-> Put(committed.result, "merged", pushed.merged),
                  log |-> committed.log \o pushed.log,
                  repo |-> pushed.repo]
            ELSE committed
        \* an exception of the save reaches the dict already appended
        logged == IF git.save THEN finished.result
                  ELSE Put(finished.result, "error", "OSError")
    IN IF git.branch = "failed"
       THEN [result |-> [result EXCEPT !.error = "branch creation failed"],
             log |-> branch_log, repo |-> repo,
             history |-> history, saved |-> FALSE]
       ELSE IF ~git.applied
       THEN [result |-> [result EXCEPT !.branch = WorkBranch,
                                       !.error = "no applicable change"],
             log |-> branch_log, repo |-> on_branch,
             history |-> history, saved |-> FALSE]
       ELSE [result |-> logged, log |-> finished.log, repo |-> finished.repo,
             history |->
                [commits |-> Append(history.commits, logged),
                 statistics |-> update_statistics(history.statistics, finished.result)],
             saved |-> git.save]

CommitInit ==
    /\ GateIdle
    /\ PipeIdle
    /\ JsonIdle
    /\ ValIdle
    /\ CallIdle
    /\ CycleIdle
    /\ commit_history = [c \in Committers |-> EmptyCommitHistory]
    /\ commits_json = EmptyCommitHistory
    /\ git_repo = [c \in Committers |->
                      [head |-> "main", merging |-> FALSE, uncommitted |-> {}]]
    /\ commit_gens = [gen \in 1..MaxCommits |-> "approved"]
    /\ commit_call = [caller |-> "none"]
    /\ commit_calls = 0

\* the call of commit by committer c on the next generation, and what the
\* caller does with the result
CallCommit(c, call, caller) ==
    LET gen == commit_calls + 1
        out == commit(ApprovedGeneration(gen), call.reviewed, call.git,
                      git_repo[c], commit_history[c])
    IN /\ commit_history' = [commit_history EXCEPT ![c] = out.history]
       /\ commits_json' = IF out.saved THEN out.history ELSE commits_json
       /\ git_repo' = [git_repo EXCEPT ![c] = out.repo]
       /\ commit_call' = [caller |-> caller, committer |-> c, generation |-> gen,
                          reviewed |-> call.reviewed, result |-> out.result,
                          log |-> out.log, before |-> commit_history[c],
                          repo_before |-> git_repo[c]]
       /\ commit_gens' =
             IF caller = "run_commit" /\ out.result["success"]
             THEN [commit_gens EXCEPT ![gen] = "committed"]
             ELSE commit_gens
       /\ commit_calls' = commit_calls + 1

\* committer.commit(generation), reviewed left at its default False
Commit ==
    /\ commit_calls < MaxCommits
    /\ \E c \in Committers, call \in CommitCalls :
          /\ ~call.reviewed
          /\ CallCommit(c, call, "commit")
    /\ UNCHANGED <<gateVars, pipeVars, jsonVars, valVars, callVars, cycleVars>>

\* run_commit, for one approved generation that should_auto_approve lets
\* through: commit(generation, reviewed=True), then the status
RunCommitOne ==
    /\ commit_calls < MaxCommits
    /\ \E c \in Committers, call \in CommitCalls :
          /\ call.reviewed
          /\ CallCommit(c, call, "run_commit")
    /\ UNCHANGED <<gateVars, pipeVars, jsonVars, valVars, callVars, cycleVars>>

CommitNext == Commit \/ RunCommitOne

SpecCommit == CommitInit /\ [][CommitNext]_vars

\* the last call ran the git command
Ran(command) ==
    /\ commit_call.caller # "none"
    /\ \E i \in 1..Len(commit_call.log) : commit_call.log[i] = command

\* C18: when the merge into the main line stops on a conflict during
\* commit(generation, reviewed=true), the merge is aborted, so the
\* repository is not left half-merged, and the commit record returned and
\* logged for the generation is marked unsuccessful, so the generation is
\* not marked committed.
C18_MergeConflictIsUnsuccessful ==
    (/\ Ran("merge --abort")
     /\ commit_call.reviewed
     /\ commit_call.result["error"] = None)
        => LET mine == commit_history[commit_call.committer].commits IN
           /\ ~git_repo[commit_call.committer].merging
           /\ ~commit_call.result["success"]
           /\ mine # << >> /\ ~mine[Len(mine)]["success"]
           /\ commit_gens[commit_call.generation] # "committed"

\* C19: commit attempts the merge into the main line and the push if and
\* only if reviewed is true and the git commit succeeded; with
\* reviewed=false the main line is never checked out, merged into or pushed.
C19_MergeOnlyWhenReviewed ==
    commit_call.caller # "none" =>
        /\ Ran("checkout main") <=> (commit_call.reviewed /\ Ran("rev-parse HEAD"))
        /\ Ran("merge") => Ran("checkout main")
        /\ Ran("push") => Ran("merge")
        /\ ~commit_call.reviewed =>
              /\ ~Ran("checkout main") /\ ~Ran("checkout master")
              /\ ~Ran("merge") /\ ~Ran("push")
              /\ "merged" \notin DOMAIN commit_call.result
              /\ git_repo[commit_call.committer].head
                    \in {WorkBranch, commit_call.repo_before.head}

\* a reviewed call was merged and pushed, and the next call of the same
\* committer, not reviewed, committed on its branch and left the main line
\* alone
C19_Witness ==
    /\ commit_call.caller = "commit"
    /\ ~commit_call.reviewed
    /\ commit_call.result["success"]
    /\ commit_call.repo_before.head = "main"
    /\ git_repo[commit_call.committer].head = WorkBranch
    /\ Len(commit_call.before.commits) = 1
    /\ Get(commit_call.before.commits[1], "merged", FALSE)

\* the counters of a commit history
Counter(history, name) == Get(history.statistics, name, 0)

\* C20: every call of commit appends exactly one record to the commit
\* history and increments total_commits and exactly one of
\* successful_commits and failed_commits, whatever its outcome.
C20_EveryCallIsRecorded ==
    commit_call.caller # "none" =>
        LET before == commit_call.before
            after == commit_history[commit_call.committer]
        IN /\ Len(after.commits) = Len(before.commits) + 1
           /\ Counter(after, "total_commits") = Counter(before, "total_commits") + 1
           /\ Counter(after, "successful_commits") + Counter(after, "failed_commits")
                 = Counter(before, "successful_commits")
                   + Counter(before, "failed_commits") + 1

\* C21: a commit attempt that fails at any step leaves the attempts of the
\* other generations unaffected: it leaves no applied but uncommitted
\* change and no checked-out working branch behind, so no later attempt
\* starts from them or commits them.
C21_FailedAttemptLeavesNoTrace ==
    commit_call.caller = "run_commit" =>
        LET repo == git_repo[commit_call.committer] IN
        /\ ~commit_call.result["success"] =>
              /\ repo.uncommitted = commit_call.repo_before.uncommitted
              /\ repo.head = commit_call.repo_before.head
        /\ commit_call.result["success"] =>
              commit_call.repo_before.uncommitted = {}

\* C28: the persisted commit history is append-only: a record written to
\* logs/commits.json is still there after any later commit by the committer
\* of any target repository.
C28_CommitLogAppendOnly ==
    [][/\ Len(commits_json'.commits) >= Len(commits_json.commits)
       /\ \A i \in 1..Len(commits_json.commits) :
             commits_json'.commits[i] = commits_json.commits[i]]_vars

(***************************************************************************)
(* KnowledgeCleaner: the selections of identify_stale_items and            *)
(* identify_low_quality_items over stores of every age and evaluation      *)
(***************************************************************************)
\* the ages, in days, of the items of the store
CleanupAges == {10, STALENESS_DAYS - 1, STALENESS_DAYS, STALENESS_DAYS + 1, 40}

\* the answer of the evaluator that recommends adoption with a low
\* aggregate score
LowScoreAdopt(item) ==
    Put([ModelEvaluation("adopt") EXCEPT !.overall_score = 20],
        "item_id", Get(item, "id", None))

\* the entries the store may hold for one URL: not yet evaluated, or
\* evaluated with each answer
StoredVariants(url) ==
    {NewItem(url)}
    \cup {EvaluatedItem(url, outcome) : outcome \in EvalOutcomes}
    \cup {Put(Put(NewItem(url), "status", "evaluated"),
              "evaluation", LowScoreAdopt(NewItem(url)))}

\* the same entries, collected every number of days ago
AgedVariants(url) ==
    {Put(item, "collected_at", now - age) :
        item \in StoredVariants(url), age \in CleanupAges}

CleanupInit ==
    /\ GateIdle
    /\ UnitIdle
    /\ now = MaxNow
    /\ collected_info_json \in
          {<<a, b>> : a \in AgedVariants("u1"), b \in AgedVariants("u2")}
    /\ collected_data = collected_info_json
    /\ generation_history = << >>
    /\ generations_json = << >>
    /\ last_run = [op |-> "none"]

\* cleaner.identify_stale_items()
IdentifyStale ==
    /\ last_run' = [op |-> "identify_stale_items",
                    items |-> identify_stale_items(collected_info_json)]
    /\ UNCHANGED <<collected_data, collected_info_json, generation_history,
                   generations_json, now>>
    /\ UNCHANGED <<gateVars, unitVars>>

\* cleaner.identify_low_quality_items()
IdentifyLowQuality ==
    /\ last_run' = [op |-> "identify_low_quality_items",
                    items |-> identify_low_quality_items(collected_info_json)]
    /\ UNCHANGED <<collected_data, collected_info_json, generation_history,
                   generations_json, now>>
    /\ UNCHANGED <<gateVars, unitVars>>

CleanupNext ==
    \/ IdentifyStale
    \/ IdentifyLowQuality
    \/ \E target_repo \in Repos : RunGeneration(target_repo)

SpecCleanup == CleanupInit /\ [][CleanupNext]_vars

\* the stored entries collected more than 30 days ago, in the order of the store
OlderThanWindow(items) ==
    LET old == Ascending({i \in 1..Len(items) : now - items[i]["collected_at"] > 30})
    IN [k \in 1..Len(old) |-> items[old[k]]]

IdsOf(items) == {Get(items[i], "id", None) : i \in 1..Len(items)}

\* C27: an item whose evaluation gave an aggregate score below the floor of
\* 0.3 is selected by the low-quality rule regardless of its age and
\* lifecycle status, including after it has passed through the Generate
\* stage: an item the rule selects stays selected while it is stored.
C27_LowQualityStaysSelected ==
    [][IdsOf(identify_low_quality_items(collected_info_json))
          \cap IdsOf(collected_info_json')
       \subseteq IdsOf(identify_low_quality_items(collected_info_json'))]_vars

(***************************************************************************)
(* run_generation, run_review and run_commit over stores and histories     *)
(* that hold more work than one batch takes                                *)
(***************************************************************************)
\* the most adoptable items on file and the most approved generations in
\* the history at the start
MaxBatchItems == 4

MaxBatchGens == 3

\* the ids of the items on file
BatchIds == <<"id1", "id2", "id3", "id4", "id5">>

\* an item evaluated with recommendation adopt
BatchItem(k) ==
    [id |-> BatchIds[k], url |-> BatchIds[k], collected_at |-> 0,
     status |-> "evaluated",
     evaluation |-> Put(ModelEvaluation("adopt"), "item_id", BatchIds[k])]

\* the same item after run_generation for target_repo
GeneratedItem(k, target_repo) ==
    generate_items(<<BatchItem(k)>>, <<1>>, target_repo, 1)[1]

\* the generation of that item, after a review that passed the gate
ReviewedGeneration(k, target_repo) ==
    LET generation == NewGeneration(BatchItem(k), target_repo)
        rv == review(generation, "pass")
    IN update_generation_status(<<generation>>, 1, new_status(rv), rv)[1]

BatchInit ==
    /\ GateIdle
    /\ UnitIdle
    /\ now = 0
    /\ \E target_repo \in Repos, m \in 0..MaxBatchGens :
          \E n \in m..MaxBatchItems :
             /\ collected_info_json =
                   [k \in 1..n |-> IF k <= m THEN GeneratedItem(k, target_repo)
                                   ELSE BatchItem(k)]
             /\ generations_json =
                   [k \in 1..m |-> ReviewedGeneration(k, target_repo)]
    /\ collected_data = collected_info_json
    /\ generation_history = generations_json
    /\ last_run = [op |-> "none"]

BatchNext ==
    \/ \E target_repo \in Repos : RunGeneration(target_repo)
    \/ RunReview
    \/ \E target_repo \in Repos : RunCommit(target_repo)
    \/ Restart

SpecBatch == BatchInit /\ [][BatchNext]_vars

\* Commit stage runs keep happening for every repository
SpecBatchFair ==
    SpecBatch /\ \A target_repo \in Repos : WF_vars(RunCommit(target_repo))

\* what names a generation: its item and its repository
KeyOf(generation) ==
    <<Get(generation, "source_item_id", None), Get(generation, "target_repo", None)>>

BatchKeys == {<<BatchIds[k], target_repo>> : k \in 1..MaxBatchItems, target_repo \in Repos}

\* the last stage run was run_commit and it called commit with the generation
PassedToCommit(key) ==
    /\ last_run.op = "commit"
    /\ \E i \in 1..Len(last_run.commits) : KeyOf(last_run.commits[i].generation) = key

\* ... and that call reported success
CommitSucceeded(key) ==
    /\ last_run.op = "commit"
    /\ \E i \in 1..Len(last_run.commits) :
          /\ KeyOf(last_run.commits[i].generation) = key
          /\ last_run.commits[i].success

\* C22: a generation whose commit succeeded is never passed to commit again
\* in any later Commit stage run, including after the process exits and a
\* new one reloads the generation log: once the run that committed it is
\* over, no later run is handed the generation.
C22_CommittedNotRecommitted ==
    \A key \in BatchKeys :
        [](CommitSucceeded(key) =>
              [](~PassedToCommit(key) => [](~PassedToCommit(key))))

\* when the Commit stage returns, every generation it committed has the
\* status committed in the generation log on disk
CommittedStatusDurable ==
    last_run.op = "commit" =>
        \A i \in 1..Len(last_run.commits) :
            last_run.commits[i].success =>
                \E g \in 1..Len(generations_json) :
                    /\ KeyOf(generations_json[g]) = KeyOf(last_run.commits[i].generation)
                    /\ Get(generations_json[g], "status", None) = "committed"

\* the positions of the items the step marked code_generated, which
\* run_generation does to every item it hands to generate
PassedToGenerate(before, after) ==
    {i \in 1..Len(before) :
        /\ i <= Len(after)
        /\ Get(before[i], "status", None) # "code_generated"
        /\ Get(after[i], "status", None) = "code_generated"}

\* C24: within one run of a stage for one target repository at most 3 items
\* are passed to generate and at most 2 generations are passed to commit,
\* however many adoptable items or approved generations exist.
C24_BatchCaps ==
    [][/\ Cardinality(PassedToGenerate(collected_info_json, collected_info_json'))
             <= 3
       /\ last_run'.op = "commit" => Len(last_run'.commits) <= 2]_vars

\* run_generation took three of four adoptable items: the fourth is still
\* adoptable for the repository and no generation has been reviewed yet
C24_Witness ==
    /\ Len(collected_info_json) = 4
    /\ \A i \in 1..3 : collected_info_json[i]["status"] = "code_generated"
    /\ collected_info_json[4]["status"] = "evaluated"
    /\ \E target_repo \in Repos :
          /\ \A i \in 1..3 :
                Get(collected_info_json[i], "target_repo_config", None) = target_repo
          /\ AdoptablePositions(collected_info_json, target_repo) = <<4>>
    /\ generations_json # << >>
    /\ \A g \in 1..Len(generations_json) :
          generations_json[g]["status"] = "pending_review"

\* run_commit took two of three approved generations of the repository
CommitCapReached ==
    /\ last_run.op = "commit"
    /\ Len(last_run.commits) = 2
    /\ Len(ApprovedFor(generations_json, last_run.target_repo)) = 3

\* the process holds the generation with status approved and a review that
\* passes the gate
ApprovedAndGated(key) ==
    \E g \in 1..Len(generation_history) :
        /\ KeyOf(generation_history[g]) = key
        /\ Get(generation_history[g], "status", None) = "approved"
        /\ should_auto_approve(Get(generation_history[g], "review", << >>))

\* C25: while Commit stage runs keep happening, every generation with status
\* approved whose review passes the gate is eventually passed to a commit
\* attempt, even when more than 2 approved generations exist for its
\* repository and the commit attempts of earlier ones keep failing.
C25_ApprovedEventuallyCommitted ==
    \A key \in BatchKeys : ApprovedAndGated(key) ~> PassedToCommit(key)

(***************************************************************************)
(* run_full_cycle from the command line and from the scheduler, and the    *)
(* run history both write.  A stage is what its run_* wrapper returns: a   *)
(* result, an error result, or an exception that escapes the wrapper.      *)
(***************************************************************************)
\* DNACommitOrchestrator.MIN_INTERVAL_HOURS
MIN_INTERVAL_HOURS == 4

\* _record_run: history["runs"][-100:]
RUN_HISTORY_LIMIT == 100

\* the last hour of the clock
MaxHour == 4

\* the most records the run history holds
MaxRuns == 2

\* the most stages of one cycle that do not return a plain result
MaxFaults == 1

\* logs/run_history.json does not exist
NoFile == << >>

\* the stages with cleanup ahead of the repositories' stages
Stages_cleanup_before_repos ==
    <<[stage |-> "collection", repo |-> None],
      [stage |-> "evaluation", repo |-> None],
      [stage |-> "cleanup", repo |-> None]>>
    \o [k \in 1..(3 * Len(TARGET_REPOS)) |->
          [stage |-> <<"generation", "review", "commit">>[((k - 1) % 3) + 1],
           repo |-> TARGET_REPOS[((k - 1) \div 3) + 1]]]

\* the try block of run_full_cycle, in order
Stages ==
    <<[stage |-> "collection", repo |-> None],
      [stage |-> "evaluation", repo |-> None]>>
    \o [k \in 1..(3 * Len(TARGET_REPOS)) |->
          [stage |-> <<"generation", "review", "commit">>[((k - 1) % 3) + 1],
           repo |-> TARGET_REPOS[((k - 1) \div 3) + 1]]]
    \o <<[stage |-> "cleanup", repo |-> None]>>

\* what the stages of one cycle do: "ok" (the wrapper returns its result),
\* "error" (the wrapper catches an exception and returns {"error": ...}),
\* "raises" (an exception leaves the wrapper)
CycleOutcomes ==
    {o \in [1..Len(Stages) -> {"ok", "error", "raises"}] :
        Cardinality({k \in 1..Len(Stages) : o[k] # "ok"}) <= MaxFaults}

\* the last n entries of a list (seq[-n:])
LastN(seq, n) ==
    IF Len(seq) <= n THEN seq ELSE SubSeq(seq, Len(seq) - n + 1, Len(seq))

\* DNACommitOrchestrator._load_run_history
load_run_history(file) ==
    IF file = NoFile THEN [runs |-> << >>] ELSE file

\* _should_run_full_cycle: FALSE only when the last record carries a
\* timestamp less than MIN_INTERVAL_HOURS old
should_run_full_cycle(file, at) ==
    LET runs == Get(load_run_history(file), "runs", << >>) IN
    IF runs = << >> THEN TRUE
    ELSE LET last == runs[Len(runs)] IN
         IF "timestamp" \notin DOMAIN last THEN TRUE
         ELSE ~(at - last["timestamp"] < MIN_INTERVAL_HOURS)

\* the first stage whose exception leaves its wrapper (0: none)
FirstRaise(outcomes) ==
    IF \E k \in 1..Len(Stages) : outcomes[k] = "raises"
    THEN CHOOSE k \in 1..Len(Stages) :
            /\ outcomes[k] = "raises"
            /\ \A j \in 1..(k - 1) : outcomes[j] # "raises"
    ELSE 0

\* the stages whose wrapper returned, with what it returned
StagesRun(outcomes) ==
    LET r == FirstRaise(outcomes)
        n == IF r = 0 THEN Len(Stages) ELSE r - 1
    IN [k \in 1..n |-> [stage |-> Stages[k].stage, repo |-> Stages[k].repo,
                        result |-> outcomes[k]]]

\* results["errors"]: only the except clause of run_full_cycle appends
CycleErrors(outcomes) ==
    IF FirstRaise(outcomes) = 0 THEN << >>
    ELSE <<Stages[FirstRaise(outcomes)].stage>>

\* results[name] is still None: the stage did not return
StillNone(outcomes, name) ==
    \A k \in 1..Len(StagesRun(outcomes)) : StagesRun(outcomes)[k].stage # name

\* _record_run: results.get("collection", {}).get(...) raises AttributeError
\* when the value is None; otherwise the record is appended and saved
record_run(file, at, outcomes) ==
    IF StillNone(outcomes, "collection") \/ StillNone(outcomes, "evaluation")
    THEN [file |-> file, raised |-> "AttributeError", record |-> << >>]
    ELSE LET history == load_run_history(file)
             record == [timestamp |-> at,
                        success |-> CycleErrors(outcomes) = << >>]
         IN [file |-> Put(history, "runs",
                          LastN(Append(history["runs"], record), RUN_HISTORY_LIMIT)),
             raised |-> None, record |-> record]

\* run_full_cycle: what it did and how it ended
run_full_cycle(force, file, at, outcomes) ==
    IF ~should_run_full_cycle(file, at) /\ ~force
    THEN [skipped |-> TRUE, ran |-> << >>, errors |-> << >>, file |-> file,
          raised |-> None, record |-> << >>]
    ELSE LET rec == record_run(file, at, outcomes) IN
         [skipped |-> FALSE, ran |-> StagesRun(outcomes),
          errors |-> CycleErrors(outcomes), file |-> rec.file,
          raised |-> rec.raised, record |-> rec.record]

\* what the call leaves to look at; executed_at is the hour of the last
\* call that ran every stage of the cycle
Observed(caller, force, at, outcomes, done) ==
    LET full == ~done.skipped /\ Len(done.ran) = Len(Stages) IN
    [caller |-> caller, force |-> force, at |-> at,
     skipped |-> done.skipped, ran |-> done.ran, errors |-> done.errors,
     raised |-> done.raised, record |-> done.record,
     raised_in |-> IF done.skipped THEN 0 ELSE FirstRaise(outcomes),
     prev_executed |-> cycle.executed, prev_executed_at |-> cycle.executed_at,
     executed |-> cycle.executed \/ full,
     executed_at |-> IF full THEN at ELSE cycle.executed_at]

CycleInit ==
    /\ GateIdle
    /\ PipeIdle
    /\ JsonIdle
    /\ ValIdle
    /\ CallIdle
    /\ CommitIdle
    /\ run_history_json = NoFile
    /\ scheduler_history = << >>
    /\ hour = 0
    /\ cycle = [caller |-> "none", force |-> FALSE, at |-> 0, skipped |-> FALSE,
                ran |-> << >>, errors |-> << >>, raised |-> None,
                record |-> << >>, raised_in |-> 0,
                prev_executed |-> FALSE, prev_executed_at |-> 0,
                executed |-> FALSE, executed_at |-> 0]

\* the history stays within the bound
RunsWithinBound(file) == Len(Get(load_run_history(file), "runs", << >>)) < MaxRuns

\* python main.py [--force]: a new process calls run_full_cycle
CliCycle ==
    /\ RunsWithinBound(run_history_json)
    /\ \E force \in BOOLEAN, outcomes \in CycleOutcomes :
          LET done == run_full_cycle(force, run_history_json, hour, outcomes) IN
          /\ run_history_json' = done.file
          /\ cycle' = Observed("cli", force, hour, outcomes, done)
    /\ UNCHANGED <<scheduler_history, hour>>
    /\ UNCHANGED <<gateVars, pipeVars, jsonVars, valVars, callVars, commitVars>>

\* DNAScheduler.__init__: the history is loaded once
SchedulerStart ==
    /\ scheduler_history = << >>
    /\ scheduler_history' =
          IF run_history_json = NoFile
          THEN [runs |-> << >>, statistics |-> << >>]
          ELSE run_history_json
    /\ UNCHANGED <<run_history_json, hour, cycle>>
    /\ UNCHANGED <<gateVars, pipeVars, jsonVars, valVars, callVars, commitVars>>

\* DNAScheduler._update_statistics (the counters)
update_run_statistics(stats, success) ==
    LET counted == Put(stats, "total_runs", Get(stats, "total_runs", 0) + 1) IN
    IF success
    THEN Put(counted, "successful_runs", Get(stats, "successful_runs", 0) + 1)
    ELSE Put(counted, "failed_runs", Get(stats, "failed_runs", 0) + 1)

\* DNAScheduler.run_evolution_cycle: run_full_cycle without force, then the
\* scheduler's own record is appended to the history it loaded at start and
\* the file is rewritten from it.  Without a "statistics" key the update
\* raises KeyError before the save and the scheduler process ends.
SchedulerCycle ==
    /\ scheduler_history # << >>
    /\ RunsWithinBound(run_history_json)
    /\ Len(scheduler_history["runs"]) < MaxRuns
    /\ \E outcomes \in CycleOutcomes :
          LET done == run_full_cycle(FALSE, run_history_json, hour, outcomes)
              success == done.raised = None /\ done.errors = << >>
              run_record == [start_time |-> hour, end_time |-> hour,
                             success |-> success]
              appended == Put(scheduler_history, "runs",
                              Append(scheduler_history["runs"], run_record))
          IN
          /\ cycle' = Observed("scheduler", FALSE, hour, outcomes, done)
          /\ IF "statistics" \in DOMAIN scheduler_history
             THEN /\ scheduler_history' =
                        Put(appended, "statistics",
                            update_run_statistics(appended["statistics"], success))
                  /\ run_history_json' = scheduler_history'
             ELSE /\ scheduler_history' = << >>
                  /\ run_history_json' = done.file
    /\ UNCHANGED hour
    /\ UNCHANGED <<gateVars, pipeVars, jsonVars, valVars, callVars, commitVars>>

\* the scheduler process is stopped
SchedulerStop ==
    /\ scheduler_history # << >>
    /\ scheduler_history' = << >>
    /\ UNCHANGED <<run_history_json, hour, cycle>>
    /\ UNCHANGED <<gateVars, pipeVars, jsonVars, valVars, callVars, commitVars>>

\* an hour, or the whole minimum interval, passes
PassHours ==
    /\ \E d \in {1, MIN_INTERVAL_HOURS} :
          /\ hour + d <= MaxHour
          /\ hour' = hour + d
    /\ UNCHANGED <<run_history_json, scheduler_history, cycle>>
    /\ UNCHANGED <<gateVars, pipeVars, jsonVars, valVars, callVars, commitVars>>

CycleNext ==
    \/ CliCycle
    \/ SchedulerStart
    \/ SchedulerCycle
    \/ SchedulerStop
    \/ PassHours

SpecCycle == CycleInit /\ [][CycleNext]_vars

\* only the command line triggers cycles
CliNext ==
    \/ CliCycle
    \/ PassHours

SpecCycleCli == CycleInit /\ [][CliNext]_vars

\* C23: if a full cycle was executed less than MIN_INTERVAL_HOURS (4) ago, a
\* further run_full_cycle without force executes no stage, records no run
\* and returns skipped, whether the cycles come from the command line or
\* from the scheduler's run_evolution_cycle.
C23_RecentCycleIsSkipped ==
    (/\ cycle.caller # "none"
     /\ ~cycle.force
     /\ cycle.prev_executed
     /\ cycle.at - cycle.prev_executed_at < MIN_INTERVAL_HOURS)
    => /\ cycle.skipped
       /\ cycle.ran = << >>
       /\ cycle.record = << >>

\* C29: if an exception is raised inside the stage sequence, the remaining
\* stages are not executed, the exception text is appended to the errors
\* list, exactly one run record with success = false is written and
\* run_full_cycle returns normally.
C29_ExceptionIsRecordedNotPropagated ==
    cycle.raised_in # 0 =>
        /\ Len(cycle.ran) = cycle.raised_in - 1
        /\ Len(cycle.errors) = 1
        /\ cycle.record # << >>
        /\ cycle.record # << >> => ~cycle.record["success"]
        /\ cycle.raised = None

\* C30: when a stage's wrapper catches an exception and returns an error
\* result, the cycle still runs the following stages to completion, the
\* failure is in the errors list and the recorded run is not successful.
C30_StageFailureIsRecorded ==
    (/\ cycle.caller # "none"
     /\ \E k \in 1..Len(cycle.ran) : cycle.ran[k].result = "error")
    => /\ cycle.raised_in = 0 => Len(cycle.ran) = Len(Stages)
       /\ cycle.errors # << >>
       /\ cycle.record # << >> => ~cycle.record["success"]

\* the positions in cycle.ran of the runs of a stage (for a repository)
RanAt(stage, repo) ==
    {k \in 1..Len(cycle.ran) :
        cycle.ran[k].stage = stage /\ cycle.ran[k].repo = repo}

\* every run of the first stage comes before every run of the second, and
\* the second has run only if the first has
RanBefore(stage1, repo1, stage2, repo2) ==
    /\ \A i \in RanAt(stage1, repo1), j \in RanAt(stage2, repo2) : i < j
    /\ RanAt(stage2, repo2) # {} => RanAt(stage1, repo1) # {}

\* C31: in every non-skipped full cycle the stages run in the order Collect,
\* Evaluate, then for each target repository Generate before Review before
\* Commit, and Cleanup only after the Commit stage of every repository; a
\* stage runs at most once per repository.
C31_StageOrder ==
    (cycle.caller # "none" /\ ~cycle.skipped) =>
        /\ RanBefore("collection", None, "evaluation", None)
        /\ \A repo \in Repos :
              /\ RanBefore("evaluation", None, "generation", repo)
              /\ RanBefore("generation", repo, "review", repo)
              /\ RanBefore("review", repo, "commit", repo)
              /\ RanBefore("commit", repo, "cleanup", None)
        /\ \A k \in 1..Len(cycle.ran) :
              Cardinality(RanAt(cycle.ran[k].stage, cycle.ran[k].repo)) = 1

\* a cycle that ran every stage, cleanup last
C31_Witness ==
    /\ cycle.caller # "none"
    /\ ~cycle.skipped
    /\ Len(cycle.ran) = 3 * Len(TARGET_REPOS) + 3
    /\ cycle.ran[Len(cycle.ran)].stage = "cleanup"

(***************************************************************************)
(* InformationEvaluator.get_adoptable_items against run_generation         *)
(***************************************************************************)
\* Config.QUALITY_THRESHOLD (0.7)
QUALITY_THRESHOLD == 70

\* get_adoptable_items: zip(items, evaluations), the pairs with
\* recommendation adopt and overall_score >= QUALITY_THRESHOLD, each item
\* with its evaluation attached
get_adoptable_items(items, evaluations) ==
    LET n == Min(Len(items), Len(evaluations))
        kept == {k \in 1..n :
                    /\ Get(evaluations[k], "recommendation", None) = "adopt"
                    /\ Get(evaluations[k], "overall_score", 0) >= QUALITY_THRESHOLD}
        order == Ascending(kept)
    IN [j \in 1..Len(order) |-> Put(items[order[j]], "evaluation", evaluations[order[j]])]

\* the evaluations the stored items carry
EvaluationsOf(items) ==
    [k \in 1..Len(items) |-> Get(items[k], "evaluation", << >>)]

\* C32: only items whose evaluation has recommendation adopt and aggregate
\* score >= the quality threshold (0.7) are treated as adoptable: the
\* Generate stage hands to generate only items that get_adoptable_items
\* returns for the store and its evaluations.
C32_GenerateOnlyAdoptable ==
    [][\A i \in PassedToGenerate(collected_info_json, collected_info_json') :
          \E j \in 1..Len(get_adoptable_items(collected_info_json,
                                              EvaluationsOf(collected_info_json))) :
             get_adoptable_items(collected_info_json,
                                 EvaluationsOf(collected_info_json))[j]
                = collected_info_json[i]]_vars

(***************************************************************************)
(* The item file under the writes of the long-lived collector              *)
(***************************************************************************)
\* C33: re-discovering stored URLs is a no-op on the store: a collection run
\* that finds no new URL adds no item and leaves every persisted item as it
\* was, also when Generate or Cleanup have rewritten the file since the
\* collecting object loaded it.
C33_RediscoveryIsNoOp ==
    [][(last_run'.op = "collect" /\ last_run'.new_items = << >>)
          => collected_info_json' = collected_info_json]_vars

\* the ids a collection run has just discovered
NewlyDiscovered(run) ==
    IF run.op = "collect" THEN StoredIds(run.new_items) ELSE {}

\* C37: an item removed from the item store by Cleanup does not reappear in
\* the persisted store through a later write of another stage of the same
\* process: an id that is not in the file enters it only as a newly
\* discovered search result.
C37_RemovedItemsStayRemoved ==
    [][StoredIds(collected_info_json') \ StoredIds(collected_info_json)
          \subseteq NewlyDiscovered(last_run')]_vars

\* C34: generate is never invoked twice for the same pair of item and
\* target repository, over any number of Generate stage runs and restarts:
\* an item a run hands to generate for a repository has no generation for
\* that repository on record.
C34_GenerateOncePerPair ==
    [][\A i \in PassedToGenerate(collected_info_json, collected_info_json') :
          \A g \in 1..Len(generation_history) :
             KeyOf(generation_history[g])
                # <<Get(collected_info_json'[i], "id", None),
                    Get(collected_info_json'[i], "target_repo_config", None)>>]_vars

\* the positions a list of positions holds
PositionsIn(sel) == {sel[k] : k \in 1..Len(sel)}

\* C35: an adopted item stays eligible for generation for a target
\* repository until the Generate stage has processed it for that repository:
\* once processed for one repository its generated_for holds that repository
\* and the item is still selected for every other repository it was
\* eligible for.
C35_EligibleForOtherRepos ==
    [][\A i \in PassedToGenerate(collected_info_json, collected_info_json') :
          LET after == collected_info_json'[i]
              done == Get(after, "target_repo_config", None)
              generated_for == Get(after, "generated_for", << >>)
          IN /\ \E j \in 1..Len(generated_for) : generated_for[j] = done
             /\ \A other \in Repos \ {done} :
                   i \in PositionsIn(AdoptablePositions(collected_info_json, other))
                      => i \in PositionsIn(AdoptablePositions(collected_info_json', other))]_vars

\* the last call merged the branch into the main line and nothing undid it
MergedLocally == Ran("merge") /\ ~Ran("merge --abort")

\* C36: a version-control failure after the local git commit (the merge
\* fails or the push is rejected) is reported in the commit record: its
\* error field is set and success is false, and a rejected push does not
\* leave the main line merged locally while the record and the generation's
\* status report a completed commit.
C36_FailureAfterCommitIsReported ==
    (/\ Ran("merge")
     /\ "merged" \in DOMAIN commit_call.result
     /\ ~commit_call.result["merged"])
        => /\ commit_call.result["error"] # None
           /\ ~commit_call.result["success"]
           /\ Ran("push") =>
                 ~(/\ MergedLocally
                   /\ commit_call.result["success"]
                   /\ commit_gens[commit_call.generation] = "committed")

\* C38: every item whose status is code_generated has a generation record
\* with the item's id as source_item_id in the generation history: an item
\* is marked code_generated only when generate produced and recorded a
\* generation for it, so an item whose generation failed stays eligible.
C38_GeneratedItemHasGeneration ==
    \A i \in 1..Len(collected_info_json) :
        Get(collected_info_json[i], "status", None) = "code_generated" =>
            \E g \in 1..Len(generations_json) :
                Get(generations_json[g], "source_item_id", None)
                    = Get(collected_info_json[i], "id", None)

\* the generation's status agrees with the review attached to it
StatusMatchesReview(gen) ==
    LET status == Get(gen, "status", None) IN
    /\ status \in {"approved", "committed"} =>
          /\ "review" \in DOMAIN gen
          /\ should_auto_approve(Get(gen, "review", << >>))
    /\ status \in {"rejected", "pending_manual_review"} =>
          /\ "review" \in DOMAIN gen
          /\ ~should_auto_approve(Get(gen, "review", << >>))

\* C39: in every reachable state each generation whose status is approved
\* or committed carries an attached review for which should_auto_approve is
\* true, and each generation whose status is rejected or
\* pending_manual_review carries an attached review for which it is false.
C39_StatusAgreesWithReview ==
    /\ \A g \in 1..Len(generation_history) : StatusMatchesReview(generation_history[g])
    /\ \A g \in 1..Len(generations_json) : StatusMatchesReview(generations_json[g])

\* one generation was approved and committed, another was reviewed and held
\* back for a manual review
C39_Witness ==
    /\ Len(generation_history) = 2
    /\ Get(generation_history[1], "status", None) = "committed"
    /\ Get(generation_history[2], "status", None) = "pending_manual_review"
    /\ \E g \in 1..Len(generations_json) :
          Get(generations_json[g], "status", None) = "approved"

\* C40: _repair_json is idempotent and establishes its postcondition: the
\* result has an even number of quote characters, no more "{" than "}" and
\* no more "[" than "]", has the input as a prefix, and is returned
\* unchanged when repaired again.
C40_RepairIsIdempotent ==
    json_pc = "repaired" =>
        LET r == json_out.text IN
        /\ count(r, Quote) % 2 = 0
        /\ count(r, "{") <= count(r, "}")
        /\ count(r, "[") <= count(r, "]")
        /\ Len(r) >= Len(json_in)
        /\ SubSeq(r, 1, Len(json_in)) = json_in
        /\ repair_json(r) = r

\* the text holds an odd number of quotes, one more "[" than "]" and one
\* more "{" than "}": the quote, the bracket and the brace are all appended
C40_Witness ==
    /\ json_pc = "repaired"
    /\ count(json_in, Quote) % 2 = 1
    /\ json_out.text = json_in \o <<Quote, "]", "}">>

====
